---------------------------- MODULE Spec2Model ----------------------------
(***************************************************************************)
(* Model of the fitstack-payments service: the webhook path (Spec), the    *)
(* checkout path (SpecCheckout) and the pure functions of the signature    *)
(* validator and of the status mapping (SpecFn).                           *)
(*                                                                         *)
(* The repository holds two builds of the same service:                    *)
(*   "django": cmd/api/main.go -> handlers.PaymentHandler ->               *)
(*             service.PaymentService (x-signature is validated),          *)
(*   "core":   unnamed/part_000 main -> api.Handler -> payment.Service.    *)
(* The variable `variant` says which build is running.                     *)
(*                                                                         *)
(* Go strings that the code inspects byte by byte (the x-signature header, *)
(* the manifest, data.id, the secret) are sequences of one-character       *)
(* strings; strings that are only compared or passed on (slug, status,     *)
(* token) are TLA+ strings.                                                *)
(***************************************************************************)
EXTENDS Integers, Sequences, FiniteSets, TLC

VARIABLES variant, pc, req, secret, token, info, log, err, resp,
          invocations, notifiedTotal, fx, co, cc

vars == <<variant, pc, req, secret, token, info, log, err, resp,
          invocations, notifiedTotal, fx, co, cc>>

svcVars == <<variant, pc, req, secret, token, info, log, err, resp,
             invocations, notifiedTotal, co, cc>>

---------------------------------------------------------------------------
(* Bounds of the model.                                                    *)

\* webhook requests handled in one behaviour
MaxInvocations == 2
\* comma-separated entries of an x-signature header drawn for Verify
MaxEntries == 2

---------------------------------------------------------------------------
(* Byte strings.                                                           *)

EmptyStr == <<>>

\* "ts=" and "v1=": the literal prefixes of the two regular expressions
TsKey == <<"t", "s", "=">>
V1Key == <<"v", "1", "=">>
Comma == ","

RECURSIVE Join(_, _)
\* strings.Join(parts, sep)
Join(parts, sep) ==
    IF Len(parts) = 0 THEN EmptyStr
    ELSE IF Len(parts) = 1 THEN parts[1]
    ELSE parts[1] \o sep \o Join(Tail(parts), sep)

\* the two lower-case hexadecimal digits hex.EncodeToString writes for a byte
HexByte(c) ==
    CASE c = "0" -> <<"3", "0">> [] c = "1" -> <<"3", "1">>
      [] c = "2" -> <<"3", "2">> [] c = "3" -> <<"3", "3">>
      [] c = "4" -> <<"3", "4">> [] c = "5" -> <<"3", "5">>
      [] c = "6" -> <<"3", "6">> [] c = "7" -> <<"3", "7">>
      [] c = "8" -> <<"3", "8">> [] c = "9" -> <<"3", "9">>
      [] c = "a" -> <<"6", "1">> [] c = "b" -> <<"6", "2">>
      [] c = "c" -> <<"6", "3">> [] c = "d" -> <<"6", "4">>
      [] c = "e" -> <<"6", "5">> [] c = "f" -> <<"6", "6">>
      [] c = "i" -> <<"6", "9">> [] c = "j" -> <<"6", "a">>
      [] c = "k" -> <<"6", "b">> [] c = "q" -> <<"7", "1">>
      [] c = "r" -> <<"7", "2">> [] c = "s" -> <<"7", "3">>
      [] c = "t" -> <<"7", "4">> [] c = "u" -> <<"7", "5">>
      [] c = "v" -> <<"7", "6">> [] c = "x" -> <<"7", "8">>
      [] c = "-" -> <<"2", "d">> [] c = "," -> <<"2", "c">>
      [] c = ":" -> <<"3", "a">> [] c = ";" -> <<"3", "b">>
      [] c = "=" -> <<"3", "d">> [] c = "+" -> <<"2", "b">>
      [] c = "A" -> <<"4", "1">>
      [] OTHER -> <<"3", "f">>

RECURSIVE HexEncode(_)
\* hex.EncodeToString
HexEncode(bytes) ==
    IF Len(bytes) = 0 THEN EmptyStr
    ELSE HexByte(Head(bytes)) \o HexEncode(Tail(bytes))

---------------------------------------------------------------------------
(* internal/adapters/mercadopago/webhook_validator.go                      *)

\* does  key([^,]+)  match at position i of header
MatchesAt(header, key, i) ==
    /\ i + Len(key) <= Len(header)
    /\ \A j \in 1..Len(key) : header[i + j - 1] = key[j]
    /\ header[i + Len(key)] # Comma

\* the greedy [^,]+ group: the bytes from position j up to the next comma
TakeValue(header, j) ==
    LET stops == {k \in j..Len(header) : header[k] = Comma}
        stop == IF stops = {} THEN Len(header) + 1
                ELSE CHOOSE k \in stops : \A m \in stops : k <= m
    IN  SubSeq(header, j, stop - 1)

\* regexp.FindStringSubmatch(header)[1] for  key([^,]+) : the group of the
\* leftmost match, "" when the expression matches nowhere
FindStringSubmatch(header, key) ==
    LET starts == {i \in 1..Len(header) : MatchesAt(header, key, i)}
    IN  IF starts = {} THEN EmptyStr
        ELSE LET first == CHOOSE i \in starts : \A k \in starts : i <= k
             IN  TakeValue(header, first + Len(key))

parseSignatureHeader(header) ==
    [ts |-> FindStringSubmatch(header, TsKey),
     hash |-> FindStringSubmatch(header, V1Key)]

buildManifest(dataID, requestID, ts) ==
    LET p1 == IF dataID # EmptyStr
              THEN <<<<"i", "d", ":">> \o dataID>> ELSE <<>>
        p2 == IF requestID # EmptyStr
              THEN <<<<"r", "e", "q", "u", "e", "s", "t", "-", "i", "d", ":">>
                     \o requestID>>
              ELSE <<>>
        p3 == IF ts # EmptyStr
              THEN <<<<"t", "s", ":">> \o ts>> ELSE <<>>
    IN  Join(p1 \o p2 \o p3, <<";">>) \o <<";">>

\* mutant: the key is left out of the digest
calculateHMAC_NoKey(manifest, key) == HexEncode(manifest)

\* HMAC-SHA256 is not computed: it is a collision-free keyed function, here
\* the hex encoding of the key, a byte no string holds (ff), and the message
calculateHMAC(manifest, key) ==
    HexEncode(key) \o <<"f", "f">> \o HexEncode(manifest)

\* mutant: an empty secret is not refused
ValidateSignature_NoSecretCheck(xSignature, xRequestID, dataID, sec) ==
    IF xSignature = EmptyStr THEN FALSE
    ELSE LET p == parseSignatureHeader(xSignature)
         IN  IF p.ts = EmptyStr \/ p.hash = EmptyStr THEN FALSE
             ELSE p.hash = calculateHMAC(buildManifest(dataID, xRequestID,
                                                       p.ts), sec)

\* mutant: a comparison that stops at the first byte that differs
hmac_Equal_ShortCircuit(x, y) ==
    LET n == IF Len(x) < Len(y) THEN Len(x) ELSE Len(y)
        diff == {i \in 1..n : x[i] # y[i]}
        first == IF diff = {} THEN n
                 ELSE CHOOSE i \in diff : \A k \in diff : i <= k
    IN  [equal |-> x = y, examined |-> first]

\* hmac.Equal is subtle.ConstantTimeCompare: slices of different lengths
\* are unequal at once, otherwise every pair of bytes is examined and the
\* differences are or-ed together.  examined counts the pairs looked at.
hmac_Equal(x, y) ==
    IF Len(x) # Len(y) THEN [equal |-> FALSE, examined |-> 0]
    ELSE [equal |-> \A i \in 1..Len(x) : x[i] = y[i], examined |-> Len(x)]

\* ValidateSignature with the work of its comparison: valid is the result,
\* examined the byte pairs the comparison looked at (0: no comparison)
ValidateSignatureTrace(xSignature, xRequestID, dataID, sec) ==
    IF xSignature = EmptyStr \/ sec = EmptyStr
    THEN [valid |-> FALSE, examined |-> 0]
    ELSE LET p == parseSignatureHeader(xSignature)
         IN  IF p.ts = EmptyStr \/ p.hash = EmptyStr
             THEN [valid |-> FALSE, examined |-> 0]
             ELSE LET manifest == buildManifest(dataID, xRequestID, p.ts)
                      expectedHash == calculateHMAC(manifest, sec)
                      cmp == hmac_Equal(p.hash, expectedHash)
                  IN  [valid |-> cmp.equal, examined |-> cmp.examined]

ValidateSignature(xSignature, xRequestID, dataID, sec) ==
    ValidateSignatureTrace(xSignature, xRequestID, dataID, sec).valid

---------------------------------------------------------------------------
(* Go error values.  sentinel is what errors.Is finds, code the Code field *)
(* of the wrapping ServiceError / PaymentError ("" for a bare error).      *)

Nil == [sentinel |-> "nil", code |-> ""]

\* ProcessWebhook was not called by the request / has not returned yet
NotCalled == [sentinel |-> "not called", code |-> ""]

Running == [sentinel |-> "running", code |-> ""]

\* a sentinel returned as it is
Bare(sentinel) == [sentinel |-> sentinel, code |-> ""]

NewServiceError(sentinel, code) == [sentinel |-> sentinel, code |-> code]

NewPaymentError(sentinel, code) == [sentinel |-> sentinel, code |-> code]

\* fmt.Errorf / errors from the SDK: no domain sentinel
Errorf(text) == [sentinel |-> text, code |-> ""]

---------------------------------------------------------------------------
(* The outside world: the backend-of-record's tenants, the provider's      *)
(* payments, and what a sender can put into a webhook request.             *)

\* tenants the backend-of-record knows
KnownSlugs == {"g1", "g2", "g3", "g4"}
\* tenant ids of webhook URLs: two tenants and one the backend does not
\* know (gin's :gym_slug matches a non-empty path segment only)
Slugs == {"g1", "g2", "gx"}

\* webhook_secret / access_token of gymCredentialsResponse
WebhookSecretOf(slug) == IF slug = "g1" THEN <<"k">> ELSE <<"j">>

\* g3 and g4 have no access token
AccessTokenOf(slug) ==
    CASE slug = "g1" -> "tok-g1"
      [] slug \in {"g3", "g4"} -> ""
      [] OTHER -> "tok-g2"

\* is_payment_enabled of gymConfigResponse: off for g2 and g4
IsPaymentEnabledOf(slug) == slug \in {"g1", "g3"}

\* an HTTP exchange with the backend-of-record: the status of the answer
\* and whether its body decodes; status 0 is no answer (httpClient.Do fails)
Http(status, body) == [status |-> status, body |-> body]

TransportError == Http(0, "none")

\* answers of the backend-of-record to GET credentials / payment-config
CredOutcomes(slug) ==
    (IF slug \in KnownSlugs THEN {Http(200, "ok")} ELSE {Http(404, "ok")})
        \cup {TransportError, Http(401, "ok"), Http(500, "ok"),
              Http(200, "malformed")}

\* answers of the backend-of-record to the POST of a payment event
NotifyOutcomes ==
    {TransportError, Http(200, "ok"), Http(201, "ok"), Http(204, "ok"),
     Http(500, "ok")}

\* payment statuses the provider may report
Statuses == {"approved", "pending", "in_process", "rejected", "cancelled",
             "refunded", "", "some_unknown_status"}

\* what payment.Client.Get returns for a payment
ProviderPayments ==
    {[Status |-> s, StatusDetail |-> "detail", ExternalReference |-> x.ref,
      TransactionAmount |-> x.amt, PaymentTypeID |-> "credit_card",
      PayerEmail |-> x.mail] :
        s \in Statuses,
        x \in {[ref |-> "order-42", amt |-> 1500, mail |-> "a@gym.io"],
               [ref |-> "order-7", amt |-> 900, mail |-> "b@gym.io"]}}

\* answers of the provider to payment.Client.Get
GetOutcomes ==
    {[ok |-> FALSE]} \cup {[ok |-> TRUE, result |-> p] : p \in ProviderPayments}

\* data.id values of a notification body
DataIDs == {<<"1">>, <<"x">>, <<"1", "x">>, EmptyStr}

\* x-request-id header values
RequestIDs == {<<"r">>, EmptyStr}

\* declared types of a notification
NotificationTypes == {"payment", "merchant_order"}

\* the header the provider writes: ts=<t>,v1=<hex HMAC of the manifest>
SignedHeader(ts, rid, dataID, key) ==
    TsKey \o ts \o <<Comma>> \o V1Key
        \o calculateHMAC(buildManifest(dataID, rid, ts), key)

\* the header with its byte at position i replaced by c
WithByte(header, i, c) == [header EXCEPT ![i] = c]

\* x-signature values a sender may attach to a notification for slug
SignatureHeaders(slug, rid, dataID) ==
    LET good == SignedHeader(<<"5">>, rid, dataID, WebhookSecretOf(slug))
    IN  {EmptyStr,
         good,
         WithByte(good, Len(good), "0"),
         SignedHeader(<<"5">>, rid, dataID, <<"x">>),
         SignedHeader(<<"5">>, rid, <<"2">>, WebhookSecretOf(slug))}

---------------------------------------------------------------------------
(* internal/core/service (unnamed/part_006): mapStatusToEvent              *)

\* mutant: in_process is not in the table
mapStatusToEvent_NoInProcess(status) ==
    CASE status = "approved" -> "payment.approved"
      [] status = "pending" -> "payment.pending"
      [] status = "rejected" -> "payment.rejected"
      [] status = "cancelled" -> "payment.cancelled"
      [] status = "refunded" -> "payment.refunded"
      [] OTHER -> "payment.updated"

mapStatusToEvent(status) ==
    CASE status = "approved" -> "payment.approved"
      [] status \in {"pending", "in_process"} -> "payment.pending"
      [] status = "rejected" -> "payment.rejected"
      [] status = "cancelled" -> "payment.cancelled"
      [] status = "refunded" -> "payment.refunded"
      [] OTHER -> "payment.updated"

---------------------------------------------------------------------------
(* Number parsing of the two gateway adapters.                             *)

Digits == {"0", "1", "2", "3", "4", "5", "6", "7", "8", "9"}

\* strconv.Atoi succeeds: an optional sign, then digits only, at least one
AtoiOk(s) ==
    LET body == IF Len(s) > 0 /\ s[1] \in {"+", "-"} THEN Tail(s) ELSE s
    IN  /\ Len(body) > 0
        /\ \A i \in 1..Len(body) : body[i] \in Digits

\* fmt.Sscanf(s, "%d") succeeds: an optional sign, then at least one digit;
\* whatever follows the digits is left unread
SscanfOk(s) ==
    LET body == IF Len(s) > 0 /\ s[1] \in {"+", "-"} THEN Tail(s) ELSE s
    IN  Len(body) > 0 /\ body[1] \in Digits

---------------------------------------------------------------------------
(* State.                                                                  *)
(*   pc            where the webhook request in flight stands              *)
(*   req           the request: slug, headers, parsed body                 *)
(*   secret, token, info   locals of ProcessWebhook                        *)
(*   log           the collaborator calls of the request in flight         *)
(*   err           what ProcessWebhook returned (NotCalled, Running: not   *)
(*                 called by this request, not returned yet)               *)
(*   resp          the HTTP response written by the handler                *)
(*   invocations   webhook requests handled so far                         *)
(*   notifiedTotal calls of the Backend Notifier so far                    *)
(*   fx            the last application of a pure function (SpecFn only)   *)
(*   co            the checkout request handled last (SpecCheckout only)   *)
(*   cc            requests handled by concurrent goroutines (SpecConc only)*)

NoReq == [slug |-> "", xSignature |-> EmptyStr, xRequestID |-> EmptyStr,
          parsed |-> FALSE, type |-> "", dataID |-> EmptyStr]

NoInfo == [PaymentID |-> EmptyStr, Status |-> "", ExternalReference |-> "",
           PaymentType |-> "", Amount |-> 0, PayerEmail |-> ""]

NoResp == [code |-> 0, status |-> ""]

NoFx == [op |-> "none"]

NoCo == [op |-> "none"]

\* a goroutine of the HTTP server that handles no request
IdleGoroutine ==
    [pc |-> "idle", kind |-> "", slug |-> "", inline |-> "", sigKey |-> EmptyStr,
     secret |-> EmptyStr, token |-> "", verified |-> <<>>, configured |-> <<>>,
     err |-> NotCalled]

\* goroutines the HTTP server runs at a time
MaxGoroutines == 2

Goroutines == 1..MaxGoroutines

\* the fields of the Adapter value all goroutines share (struct{}: none),
\* the goroutines, and the requests accepted so far
NoCc == [adapter |-> <<>>, g |-> [p \in Goroutines |-> IdleGoroutine],
         started |-> 0]

Call(name, arg, ok) == [call |-> name, arg |-> arg, ok |-> ok]

\* a call with the answer of the outside world to it and the error the
\* collaborator returned for that answer
CallAnswered(name, arg, ok, answer, returned) ==
    [call |-> name, arg |-> arg, ok |-> ok, answer |-> answer,
     returned |-> returned]

Init ==
    /\ variant \in {"django", "core"}
    /\ pc = "idle"
    /\ req = NoReq
    /\ secret = EmptyStr
    /\ token = ""
    /\ info = NoInfo
    /\ log = <<>>
    /\ err = NotCalled
    /\ resp = NoResp
    /\ invocations = 0
    /\ notifiedTotal = 0
    /\ fx = NoFx
    /\ co = NoCo
    /\ cc = NoCc

\* a request is accepted when none is in flight
CanAccept == pc \in {"idle", "done"} /\ invocations < MaxInvocations

\* c.ShouldBindJSON succeeded: the notification the handler passes on
Notifications ==
    [parsed : {TRUE}, type : NotificationTypes, dataID : DataIDs]

\* mutant: an error of ProcessWebhook becomes a 500
WebhookResponse_Status500(e) ==
    IF e # Nil THEN [code |-> 500, status |-> "processed_with_error"]
    ELSE [code |-> 200, status |-> "processed"]

\* mutant: every request that parsed is reported as processed
WebhookResponse_AlwaysProcessed(e) == [code |-> 200, status |-> "processed"]

\* the tail of both handlers: the answer for what ProcessWebhook returned
WebhookResponse(e) ==
    IF e # Nil THEN [code |-> 200, status |-> "processed_with_error"]
    ELSE [code |-> 200, status |-> "processed"]

\* the answer to a body that does not bind
ParseErrorResponse == [code |-> 200, status |-> "received"]

\* the answer when the route parameter is empty
MissingSlugResponse == [code |-> 400, status |-> "error"]

\* ProcessWebhook returns e and the handler answers
Return(e) ==
    /\ err' = e
    /\ resp' = WebhookResponse(e)
    /\ pc' = "done"

\* a request enters a handler: the locals of the previous one are gone
Enter(slug, sig, rid, body) ==
    /\ req' = [slug |-> slug, xSignature |-> sig, xRequestID |-> rid,
               parsed |-> body.parsed, type |-> body.type,
               dataID |-> body.dataID]
    /\ secret' = EmptyStr
    /\ token' = ""
    /\ info' = NoInfo
    /\ log' = <<>>
    /\ invocations' = invocations + 1
    /\ UNCHANGED <<variant, notifiedTotal, fx, co,
                   cc>>

BadBody == [parsed |-> FALSE, type |-> "", dataID |-> EmptyStr]

---------------------------------------------------------------------------
(* "django" build: handlers.PaymentHandler and service.PaymentService      *)

\* PaymentHandler.HandleWebhook up to the call of ProcessWebhook
PaymentHandler_HandleWebhook(slug, sig, rid, body) ==
    /\ variant = "django"
    /\ CanAccept
    /\ Enter(slug, sig, rid, body)
    /\ IF slug = ""
       THEN err' = NotCalled /\ resp' = MissingSlugResponse /\ pc' = "done"
       ELSE IF ~body.parsed
       THEN err' = NotCalled /\ resp' = ParseErrorResponse /\ pc' = "done"
       ELSE err' = Running /\ resp' = NoResp /\ pc' = "GetWebhookSecret"

\* django.Client.getGymCredentials for one answer of the backend
getGymCredentials(slug, outcome) ==
    IF outcome = TransportError
    THEN [err |-> NewServiceError("ErrGymNotFound", "HTTP_ERROR")]
    ELSE IF outcome.status = 404
    THEN [err |-> Bare("ErrGymNotFound")]
    ELSE IF outcome.status # 200
    THEN [err |-> NewServiceError("ErrGymNotFound", "DJANGO_ERROR")]
    ELSE IF outcome.body # "ok"
    THEN [err |-> NewServiceError("ErrGymNotFound", "DECODE_ERROR")]
    ELSE [err |-> Nil, WebhookSecret |-> WebhookSecretOf(slug),
          AccessToken |-> AccessTokenOf(slug)]

\* mutant: a failed secret resolution is logged and the pipeline goes on
\* with the empty secret
PaymentService_GetWebhookSecret_GoesOn(outcome) ==
    /\ variant = "django"
    /\ pc = "GetWebhookSecret"
    /\ LET creds == getGymCredentials(req.slug, outcome)
       IN  /\ log' = Append(log, CallAnswered("GetWebhookSecret", req.slug,
                                              creds.err = Nil, outcome,
                                              creds.err))
           /\ secret' = IF creds.err # Nil THEN EmptyStr
                        ELSE creds.WebhookSecret
           /\ pc' = "ValidateSignature"
           /\ UNCHANGED <<err, resp>>
    /\ UNCHANGED <<variant, req, token, info, invocations, notifiedTotal, fx, co,
                   cc>>

\* Step 1: credProvider.GetWebhookSecret
PaymentService_GetWebhookSecret(outcome) ==
    /\ variant = "django"
    /\ pc = "GetWebhookSecret"
    /\ LET creds == getGymCredentials(req.slug, outcome)
       IN  /\ log' = Append(log, CallAnswered("GetWebhookSecret", req.slug,
                                              creds.err = Nil, outcome,
                                              creds.err))
           /\ IF creds.err # Nil
              THEN /\ Return(NewServiceError("ErrGymNotFound", "GYM_NOT_FOUND"))
                   /\ UNCHANGED secret
              ELSE /\ secret' = creds.WebhookSecret
                   /\ pc' = "ValidateSignature"
                   /\ UNCHANGED <<err, resp>>
    /\ UNCHANGED <<variant, req, token, info, invocations, notifiedTotal, fx, co,
                   cc>>

\* mutant: a failed validation is logged and the pipeline goes on
PaymentService_ValidateSignature_GoesOn ==
    /\ variant = "django"
    /\ pc = "ValidateSignature"
    /\ log' = Append(log, Call("ValidateSignature",
                               [xSignature |-> req.xSignature,
                                xRequestID |-> req.xRequestID,
                                dataID |-> req.dataID, secret |-> secret],
                               ValidateSignature(req.xSignature, req.xRequestID,
                                                 req.dataID, secret)))
    /\ IF req.type # "payment"
       THEN Return(Nil)
       ELSE pc' = "GetAccessToken" /\ UNCHANGED <<err, resp>>
    /\ UNCHANGED <<variant, req, secret, token, info, invocations,
                   notifiedTotal, fx, co,
                   cc>>

\* mutant: notifications of every type are processed as payments
PaymentService_ValidateSignature_NoTypeFilter ==
    /\ variant = "django"
    /\ pc = "ValidateSignature"
    /\ LET valid == ValidateSignature(req.xSignature, req.xRequestID,
                                      req.dataID, secret)
       IN  /\ log' = Append(log, Call("ValidateSignature",
                                      [xSignature |-> req.xSignature,
                                       xRequestID |-> req.xRequestID,
                                       dataID |-> req.dataID,
                                       secret |-> secret], valid))
           /\ IF ~valid
              THEN Return(Bare("ErrWebhookValidationFailed"))
              ELSE pc' = "GetAccessToken" /\ UNCHANGED <<err, resp>>
    /\ UNCHANGED <<variant, req, secret, token, info, invocations,
                   notifiedTotal, fx, co,
                   cc>>

\* Steps 2 and 3: webhookValidator.ValidateSignature, then the type filter
PaymentService_ValidateSignature ==
    /\ variant = "django"
    /\ pc = "ValidateSignature"
    /\ LET valid == ValidateSignature(req.xSignature, req.xRequestID,
                                      req.dataID, secret)
       IN  /\ log' = Append(log, Call("ValidateSignature",
                                      [xSignature |-> req.xSignature,
                                       xRequestID |-> req.xRequestID,
                                       dataID |-> req.dataID,
                                       secret |-> secret], valid))
           /\ IF ~valid
              THEN Return(Bare("ErrWebhookValidationFailed"))
              ELSE IF req.type # "payment"
              THEN Return(Nil)
              ELSE pc' = "GetAccessToken" /\ UNCHANGED <<err, resp>>
    /\ UNCHANGED <<variant, req, secret, token, info, invocations,
                   notifiedTotal, fx, co,
                   cc>>

\* mutant: the HTTP client has no timeout; a request the backend never
\* answers never returns
PaymentService_GetAccessToken_NoTimeout(outcome) ==
    /\ variant = "django"
    /\ pc = "GetAccessToken"
    /\ LET creds == getGymCredentials(req.slug, outcome)
       IN  IF outcome = TransportError
           THEN /\ pc' = "blocked"
                /\ UNCHANGED <<log, token, err, resp>>
           ELSE /\ log' = Append(log, CallAnswered("GetAccessToken", req.slug,
                                                   creds.err = Nil, outcome,
                                                   creds.err))
                /\ IF creds.err # Nil
                   THEN Return(creds.err) /\ UNCHANGED token
                   ELSE /\ token' = creds.AccessToken
                        /\ pc' = "GetPaymentInfo"
                        /\ UNCHANGED <<err, resp>>
    /\ UNCHANGED <<variant, req, secret, info, invocations, notifiedTotal, fx, co,
                   cc>>

\* Step 4: credProvider.GetAccessToken
PaymentService_GetAccessToken(outcome) ==
    /\ variant = "django"
    /\ pc = "GetAccessToken"
    /\ LET creds == getGymCredentials(req.slug, outcome)
       IN  /\ log' = Append(log, CallAnswered("GetAccessToken", req.slug,
                                              creds.err = Nil, outcome,
                                              creds.err))
           /\ IF creds.err # Nil
              THEN Return(creds.err) /\ UNCHANGED token
              ELSE /\ token' = creds.AccessToken
                   /\ pc' = "GetPaymentInfo"
                   /\ UNCHANGED <<err, resp>>
    /\ UNCHANGED <<variant, req, secret, info, invocations, notifiedTotal, fx, co,
                   cc>>

\* mercadopago.Adapter.GetPaymentInfo (internal/adapters): config.New is
\* given no option and so returns no error; the id is parsed before the
\* provider is asked
Adapter_GetPaymentInfo(accessToken, paymentID, outcome) ==
    IF ~AtoiOk(paymentID)
    THEN [err |-> NewServiceError("ErrInvalidRequest", "INVALID_PAYMENT_ID"),
          asked |-> FALSE]
    ELSE IF ~outcome.ok
    THEN [err |-> NewServiceError("ErrPaymentGatewayError", "MP_PAYMENT_ERROR"),
          asked |-> TRUE]
    ELSE [err |-> Nil, asked |-> TRUE,
          info |-> [PaymentID |-> paymentID,
                    Status |-> outcome.result.Status,
                    ExternalReference |-> outcome.result.ExternalReference,
                    PaymentType |-> outcome.result.PaymentTypeID,
                    Amount |-> outcome.result.TransactionAmount,
                    PayerEmail |-> outcome.result.PayerEmail]]

\* mutant: the payment is looked up under the digits data.id begins with
PaymentService_GetPaymentInfo_LeadingDigit(outcome) ==
    /\ variant = "django"
    /\ pc = "GetPaymentInfo"
    /\ LET id == IF Len(req.dataID) > 1 THEN SubSeq(req.dataID, 1, 1)
                 ELSE req.dataID
           r == Adapter_GetPaymentInfo(token, id, outcome)
       IN  /\ log' = Append(log, CallAnswered("GetPaymentInfo",
                                              [accessToken |-> token,
                                               paymentID |-> id,
                                               asked |-> r.asked],
                                              r.err = Nil, outcome, r.err))
           /\ IF r.err # Nil
              THEN Return(r.err) /\ UNCHANGED info
              ELSE /\ info' = r.info
                   /\ pc' = "NotifyPaymentConfirmed"
                   /\ UNCHANGED <<err, resp>>
    /\ UNCHANGED <<variant, req, secret, token, invocations, notifiedTotal, fx, co,
                   cc>>

\* Step 5: gateway.GetPaymentInfo
PaymentService_GetPaymentInfo(outcome) ==
    /\ variant = "django"
    /\ pc = "GetPaymentInfo"
    /\ LET r == Adapter_GetPaymentInfo(token, req.dataID, outcome)
       IN  /\ log' = Append(log, CallAnswered("GetPaymentInfo",
                                              [accessToken |-> token,
                                               paymentID |-> req.dataID,
                                               asked |-> r.asked],
                                              r.err = Nil, outcome, r.err))
           /\ IF r.err # Nil
              THEN Return(r.err) /\ UNCHANGED info
              ELSE /\ info' = r.info
                   /\ pc' = "NotifyPaymentConfirmed"
                   /\ UNCHANGED <<err, resp>>
    /\ UNCHANGED <<variant, req, secret, token, invocations, notifiedTotal, fx, co,
                   cc>>

\* django.Client.NotifyPaymentConfirmed for one answer of the backend
NotifyPaymentConfirmed(outcome) ==
    IF outcome = TransportError
    THEN NewServiceError("ErrDjangoCallbackFailed", "HTTP_ERROR")
    ELSE IF outcome.status < 200 \/ outcome.status >= 300
    THEN NewServiceError("ErrDjangoCallbackFailed", "DJANGO_ERROR")
    ELSE Nil

\* mutant: the payer's email is sent as the external reference
DjangoWebhookPayload_WrongReference(gymSlug, paymentInfo) ==
    [Event |-> mapStatusToEvent(paymentInfo.Status),
     GymSlug |-> gymSlug,
     ExternalReference |-> paymentInfo.PayerEmail,
     PaymentID |-> paymentInfo.PaymentID,
     PaymentStatus |-> paymentInfo.Status,
     PaymentType |-> paymentInfo.PaymentType,
     Amount |-> paymentInfo.Amount,
     PayerEmail |-> paymentInfo.PayerEmail]

\* Steps 6 and 7: the DjangoWebhookPayload built from the payment
DjangoWebhookPayload(gymSlug, paymentInfo) ==
    [Event |-> mapStatusToEvent(paymentInfo.Status),
     GymSlug |-> gymSlug,
     ExternalReference |-> paymentInfo.ExternalReference,
     PaymentID |-> paymentInfo.PaymentID,
     PaymentStatus |-> paymentInfo.Status,
     PaymentType |-> paymentInfo.PaymentType,
     Amount |-> paymentInfo.Amount,
     PayerEmail |-> paymentInfo.PayerEmail]

\* mutant: a failed delivery is tried again
PaymentService_NotifyPaymentConfirmed_Retry(outcome) ==
    /\ variant = "django"
    /\ pc = "NotifyPaymentConfirmed"
    /\ LET e == NotifyPaymentConfirmed(outcome)
       IN  /\ log' = Append(log, CallAnswered("Notify",
                                              DjangoWebhookPayload(req.slug,
                                                                   info),
                                              e = Nil, outcome, e))
           /\ IF e # Nil /\ Len(log) < 5
              THEN UNCHANGED <<pc, err, resp>>
              ELSE Return(e)
    /\ notifiedTotal' = notifiedTotal + 1
    /\ UNCHANGED <<variant, req, secret, token, info, invocations, fx, co,
                   cc>>

\* Steps 6 to 8: map the status, notify the backend, return
PaymentService_NotifyPaymentConfirmed(outcome) ==
    /\ variant = "django"
    /\ pc = "NotifyPaymentConfirmed"
    /\ LET e == NotifyPaymentConfirmed(outcome)
       IN  /\ log' = Append(log, CallAnswered("Notify",
                                              DjangoWebhookPayload(req.slug,
                                                                   info),
                                              e = Nil, outcome, e))
           /\ Return(e)
    /\ notifiedTotal' = notifiedTotal + 1
    /\ UNCHANGED <<variant, req, secret, token, info, invocations, fx, co,
                   cc>>

---------------------------------------------------------------------------
(* "core" build: api.Handler and payment.Service                           *)

\* Handler.HandleWebhook up to the first call ProcessWebhook makes; the
\* type filter of Service.ProcessWebhook comes before any call
Handler_HandleWebhook(slug, sig, rid, body) ==
    /\ variant = "core"
    /\ CanAccept
    /\ Enter(slug, sig, rid, body)
    /\ IF slug = ""
       THEN err' = NotCalled /\ resp' = MissingSlugResponse /\ pc' = "done"
       ELSE IF ~body.parsed
       THEN err' = NotCalled /\ resp' = ParseErrorResponse /\ pc' = "done"
       ELSE IF body.type # "payment"
       THEN Return(Nil)
       ELSE err' = Running /\ resp' = NoResp /\ pc' = "GetGymConfig"

\* fitstackcore.Client.GetGymConfig for one answer of the backend
GetGymConfig(slug, outcome) ==
    IF outcome = TransportError
    THEN [err |-> Errorf("failed to make request")]
    ELSE IF outcome.status = 404
    THEN [err |-> Bare("ErrGymNotFound")]
    ELSE IF outcome.status \in {401, 403}
    THEN [err |-> Errorf("authentication failed with Core API")]
    ELSE IF outcome.status # 200
    THEN [err |-> Errorf("unexpected status")]
    ELSE IF outcome.body # "ok"
    THEN [err |-> Errorf("failed to decode response")]
    ELSE [err |-> Nil, AccessToken |-> AccessTokenOf(slug),
          IsPaymentEnabled |-> IsPaymentEnabledOf(slug)]

\* gymRepo.GetGymConfig
Service_GetGymConfig(outcome) ==
    /\ variant = "core"
    /\ pc = "GetGymConfig"
    /\ LET cfg == GetGymConfig(req.slug, outcome)
       IN  /\ log' = Append(log, CallAnswered("GetGymConfig", req.slug,
                                              cfg.err = Nil, outcome, cfg.err))
           /\ IF cfg.err # Nil
              THEN /\ Return(NewPaymentError(cfg.err.sentinel,
                                             "WEBHOOK_GYM_ERROR"))
                   /\ UNCHANGED token
              ELSE /\ token' = cfg.AccessToken
                   /\ pc' = "GetPaymentInfo"
                   /\ UNCHANGED <<err, resp>>
    /\ UNCHANGED <<variant, req, secret, info, invocations, notifiedTotal, fx, co,
                   cc>>

\* mercadopago.Adapter.GetPaymentInfo (internal/platform, unnamed/part_007)
PlatformAdapter_GetPaymentInfo(accessToken, paymentID, outcome) ==
    IF ~SscanfOk(paymentID)
    THEN [err |-> Errorf("invalid payment ID format"), asked |-> FALSE]
    ELSE IF ~outcome.ok
    THEN [err |-> Errorf("failed to get payment info"), asked |-> TRUE]
    ELSE [err |-> Nil, asked |-> TRUE,
          info |-> [PaymentID |-> paymentID,
                    GymSlug |-> "",
                    Status |-> outcome.result.Status,
                    StatusDetail |-> outcome.result.StatusDetail,
                    ExternalRef |-> outcome.result.ExternalReference,
                    Amount |-> outcome.result.TransactionAmount,
                    PayerEmail |-> outcome.result.PayerEmail]]

\* paymentGateway.GetPaymentInfo, then paymentStatus.GymSlug = gymSlug
Service_GetPaymentInfo(outcome) ==
    /\ variant = "core"
    /\ pc = "GetPaymentInfo"
    /\ LET r == PlatformAdapter_GetPaymentInfo(token, req.dataID, outcome)
       IN  /\ log' = Append(log, CallAnswered("GetPaymentInfo",
                                              [accessToken |-> token,
                                               paymentID |-> req.dataID,
                                               asked |-> r.asked],
                                              r.err = Nil, outcome, r.err))
           /\ IF r.err # Nil
              THEN /\ Return(NewPaymentError("ErrPaymentGatewayError",
                                             "WEBHOOK_GATEWAY_ERROR"))
                   /\ UNCHANGED info
              ELSE /\ info' = [r.info EXCEPT !.GymSlug = req.slug]
                   /\ pc' = "NotifyPaymentStatus"
                   /\ UNCHANGED <<err, resp>>
    /\ UNCHANGED <<variant, req, secret, token, invocations, notifiedTotal, fx, co,
                   cc>>

\* fitstackcore.Client.NotifyPaymentStatus for one answer of the backend
NotifyPaymentStatus(outcome) ==
    IF outcome = TransportError
    THEN Errorf("failed to make request")
    ELSE IF outcome.status # 200 /\ outcome.status # 201
    THEN Errorf("Core API returned status")
    ELSE Nil

\* coreNotifier.NotifyPaymentStatus, then return
Service_NotifyPaymentStatus(outcome) ==
    /\ variant = "core"
    /\ pc = "NotifyPaymentStatus"
    /\ LET e == NotifyPaymentStatus(outcome)
       IN  /\ log' = Append(log, CallAnswered("Notify", info, e = Nil,
                                              outcome, e))
           /\ IF e # Nil
              THEN Return(NewPaymentError("ErrCoreAPIError",
                                          "WEBHOOK_NOTIFY_ERROR"))
              ELSE Return(Nil)
    /\ notifiedTotal' = notifiedTotal + 1
    /\ UNCHANGED <<variant, req, secret, token, info, invocations, fx, co,
                   cc>>

---------------------------------------------------------------------------
(* The service: webhook requests, one after the other.                     *)

Next ==
    \/ \E slug \in Slugs, rid \in RequestIDs,
          body \in Notifications \cup {BadBody} :
          \E sig \in SignatureHeaders(slug, rid, body.dataID) :
              PaymentHandler_HandleWebhook(slug, sig, rid, body)
    \/ \E o \in CredOutcomes(req.slug) : PaymentService_GetWebhookSecret(o)
    \/ PaymentService_ValidateSignature
    \/ \E o \in CredOutcomes(req.slug) : PaymentService_GetAccessToken(o)
    \/ \E o \in GetOutcomes : PaymentService_GetPaymentInfo(o)
    \/ \E o \in NotifyOutcomes : PaymentService_NotifyPaymentConfirmed(o)
    \/ \E slug \in Slugs, rid \in RequestIDs,
          body \in Notifications \cup {BadBody} :
          \E sig \in SignatureHeaders(slug, rid, body.dataID) :
              Handler_HandleWebhook(slug, sig, rid, body)
    \/ \E o \in CredOutcomes(req.slug) : Service_GetGymConfig(o)
    \/ \E o \in GetOutcomes : Service_GetPaymentInfo(o)
    \/ \E o \in NotifyOutcomes : Service_NotifyPaymentStatus(o)

Spec == Init /\ [][Next]_vars

\* the notifications and the provider's answers of the runs checked for
\* termination: both tenants' kinds (known, unknown), every kind of body,
\* every x-signature, every answer of the backend, two payments
LiveSlugs == {"g1", "gx"}

LiveNotifications ==
    {n \in Notifications : n.dataID \in {<<"1">>, <<"x">>}} \cup {BadBody}

LiveGetOutcomes ==
    {o \in GetOutcomes :
        o.ok => /\ o.result.Status \in {"approved", "rejected"}
                /\ o.result.ExternalReference = "order-42"}

\* a call of a collaborator that does I/O: the credential resolver, the
\* gateway, the notifier
IOStep ==
    \/ \E o \in CredOutcomes(req.slug) : PaymentService_GetWebhookSecret(o)
    \/ \E o \in CredOutcomes(req.slug) : PaymentService_GetAccessToken(o)
    \/ \E o \in LiveGetOutcomes : PaymentService_GetPaymentInfo(o)
    \/ \E o \in NotifyOutcomes : PaymentService_NotifyPaymentConfirmed(o)

\* the verification, a computation without I/O, has returned: the
\* invocation is past step 2 (at step 4, or returned)
VerificationReturns ==
    /\ pc = "ValidateSignature"
    /\ pc' \in {"GetAccessToken", "done"}

NextLive ==
    \/ \E slug \in LiveSlugs, body \in LiveNotifications :
          \E sig \in SignatureHeaders(slug, <<"r">>, body.dataID) :
              PaymentHandler_HandleWebhook(slug, sig, <<"r">>, body)
    \/ IOStep
    \/ PaymentService_ValidateSignature

\* the service of cmd/api/main.go before its first request
InitLive == Init /\ variant = "django"

\* the webhook path of the "django" build when every call in flight
\* returns: http.Client has a timeout of 15 seconds (django.NewClient), the
\* SDK's client answers or fails, and the goroutine of a request runs until
\* its handler returns.  Only PaymentService_ValidateSignature changes pc
\* from "ValidateSignature", and it is enabled whenever pc is there: the
\* second condition is weak fairness of that step.
SpecLive ==
    /\ InitLive
    /\ [][NextLive]_vars
    /\ WF_vars(IOStep)
    /\ WF_pc(VerificationReturns)

---------------------------------------------------------------------------
(* Checkout: POST /api/v1/payments/checkout of both builds.  A checkout    *)
(* request is handled in one step: no state is shared between requests.    *)
(* co records the request handled: its inputs, the collaborator calls made,*)
(* what CreateCheckout returned and what the handler answered.             *)

webhookVars == <<variant, pc, req, secret, token, info, log, err, resp,
                 invocations, notifiedTotal>>

Bearer == <<"B", "e", "a", "r", "e", "r">>

\* the static credential callers are given (PAYMENTS_SERVICE_API_KEY of the
\* comment in ServiceAuthMiddleware; the code reads no such setting)
ServiceAPIKey == <<"k">>

\* Authorization header values of a checkout request
AuthHeaders ==
    {EmptyStr,
     Bearer \o <<" ">> \o ServiceAPIKey,
     Bearer \o <<" ", "w">>,
     Bearer \o <<" ">>,
     Bearer,
     <<"B", "a", "s", "i", "c", " ", "k">>}

\* strings.SplitN(s, " ", 2)
SplitN2(s) ==
    LET spaces == {i \in 1..Len(s) : s[i] = " "}
    IN  IF spaces = {} THEN <<s>>
        ELSE LET first == CHOOSE i \in spaces : \A k \in spaces : i <= k
             IN  <<SubSeq(s, 1, first - 1), SubSeq(s, first + 1, Len(s))>>

\* ServiceAuthMiddleware: TRUE when c.Next() is reached.  The token is
\* stored in the context and compared with nothing.
ServiceAuthMiddleware(authHeader) ==
    IF authHeader = EmptyStr THEN FALSE
    ELSE LET parts == SplitN2(authHeader)
         IN  IF Len(parts) # 2 \/ parts[1] # Bearer THEN FALSE
             ELSE TRUE

\* payer_email values; the email tag of the binding accepts the last only
Emails == {"", "nobody", "a@gym.io"}

ValidEmails == {"a@gym.io"}

Amounts == {-5, 0, 1500}

\* values of an optional redirect URL of a request: absent or supplied
CallerURLs == {"", "https://caller.example/back"}

\* JSON bodies sent to the "django" build (domain.PaymentRequest): bodies
\* without redirect URLs, and complete bodies with any of the three
PaymentRequests ==
    [GymSlug : {"", "g1"}, Amount : Amounts, Title : {"", "Plan"},
     PayerEmail : Emails, ExternalReference : {"", "order-42"},
     MPAccessToken : {"", "tok-g1"},
     SuccessURL : {""}, FailureURL : {""}, PendingURL : {""}]
    \cup
    [GymSlug : {"g1", "g2"}, Amount : {1500}, Title : {"Plan"},
     PayerEmail : ValidEmails, ExternalReference : {"order-42"},
     MPAccessToken : {"tok-g1"},
     SuccessURL : CallerURLs, FailureURL : CallerURLs, PendingURL : CallerURLs]

\* JSON bodies sent to the "core" build (api.CheckoutRequest), and the
\* domain.PaymentOrder values made of them
PaymentOrders ==
    [GymSlug : {"", "gx"} \cup KnownSlugs, Amount : Amounts,
     Title : {"", "Plan"}, PayerEmail : Emails]

\* the binding tags of domain.PaymentRequest
ShouldBindJSON_PaymentRequest(body) ==
    /\ body.GymSlug # ""
    /\ body.Amount > 0
    /\ body.Title # ""
    /\ body.PayerEmail \in ValidEmails
    /\ body.ExternalReference # ""
    /\ body.MPAccessToken # ""

\* the binding tags of api.CheckoutRequest
ShouldBindJSON_CheckoutRequest(body) ==
    /\ body.GymSlug # ""
    /\ body.Amount > 0
    /\ body.Title # ""
    /\ body.PayerEmail \in ValidEmails

\* answers of the provider to preference.Client.Create: an error, a
\* preference, a preference without init_point
PreferenceOutcomes ==
    {[ok |-> FALSE, ID |-> "", InitPoint |-> "", SandboxInitPoint |-> ""],
     [ok |-> TRUE, ID |-> "pref-1", InitPoint |-> "https://mp/init",
      SandboxInitPoint |-> "https://sandbox.mp/init"],
     [ok |-> TRUE, ID |-> "pref-1", InitPoint |-> "",
      SandboxInitPoint |-> ""]}

\* domain.PaymentResponse of a failure
FailedResponse(message, code) ==
    [Success |-> FALSE, PreferenceID |-> "", InitPoint |-> "",
     SandboxInitPoint |-> "", Error |-> message, ErrorCode |-> code]

\* no response value (a nil pointer)
NoPaymentResponse ==
    [Success |-> FALSE, PreferenceID |-> "", InitPoint |-> "",
     SandboxInitPoint |-> "", Error |-> "", ErrorCode |-> ""]

\* a URL the service hands to the provider: the text of the caller (raw),
\* or the host and the path segments of a URL made by fmt.Sprintf
CallerURL(text) == [raw |-> text, host |-> "", path |-> <<>>]

SprintfURL(host, path) == [raw |-> "", host |-> host, path |-> path]

\* mutant: one test for the three redirect URLs; the defaults are used
\* unless the caller supplied the success URL
Adapter_preference_Request_OneTest(r) ==
    [Title |-> r.Title, Quantity |-> 1, UnitPrice |-> r.Amount,
     PayerEmail |-> r.PayerEmail,
     ExternalReference |-> r.ExternalReference,
     BackURLs |->
        IF r.SuccessURL = ""
        THEN [Success |-> SprintfURL("https://fitstackapp.com",
                                     <<"gym", r.GymSlug, "payment", "success">>),
              Failure |-> SprintfURL("https://fitstackapp.com",
                                     <<"gym", r.GymSlug, "payment", "failure">>),
              Pending |-> SprintfURL("https://fitstackapp.com",
                                     <<"gym", r.GymSlug, "payment", "pending">>)]
        ELSE [Success |-> CallerURL(r.SuccessURL),
              Failure |-> CallerURL(r.FailureURL),
              Pending |-> CallerURL(r.PendingURL)],
     NotificationURL |-> SprintfURL("https://api.fitstackapp.com",
                                    <<"webhooks", r.GymSlug>>)]

\* the preference.Request mercadopago.Adapter.CreatePreference
\* (internal/adapters) sends to the provider
Adapter_preference_Request(r) ==
    [Title |-> r.Title, Quantity |-> 1, UnitPrice |-> r.Amount,
     PayerEmail |-> r.PayerEmail,
     ExternalReference |-> r.ExternalReference,
     BackURLs |->
        [Success |-> IF r.SuccessURL = ""
                     THEN SprintfURL("https://fitstackapp.com",
                                     <<"gym", r.GymSlug, "payment", "success">>)
                     ELSE CallerURL(r.SuccessURL),
         Failure |-> IF r.FailureURL = ""
                     THEN SprintfURL("https://fitstackapp.com",
                                     <<"gym", r.GymSlug, "payment", "failure">>)
                     ELSE CallerURL(r.FailureURL),
         Pending |-> IF r.PendingURL = ""
                     THEN SprintfURL("https://fitstackapp.com",
                                     <<"gym", r.GymSlug, "payment", "pending">>)
                     ELSE CallerURL(r.PendingURL)],
     NotificationURL |-> SprintfURL("https://api.fitstackapp.com",
                                    <<"webhooks", r.GymSlug>>)]

\* mercadopago.Adapter.CreatePreference (internal/adapters)
Adapter_CreatePreference(accessToken, r, outcome) ==
    IF ~outcome.ok
    THEN [err |-> NewServiceError("ErrPaymentGatewayError",
                                  "MP_PREFERENCE_ERROR"),
          response |-> NoPaymentResponse]
    ELSE [err |-> Nil,
          response |-> [Success |-> TRUE, PreferenceID |-> outcome.ID,
                        InitPoint |-> outcome.InitPoint,
                        SandboxInitPoint |-> outcome.SandboxInitPoint,
                        Error |-> "", ErrorCode |-> ""]]

\* PaymentService.CreateCheckout: the response, the error (always nil) and
\* the collaborator calls made
PaymentService_CreateCheckout(r, gw) ==
    IF r.MPAccessToken = ""
    THEN [response |-> FailedResponse("mp_access_token is required",
                                      "VALIDATION_ERROR"),
          err |-> Nil, calls |-> <<>>]
    ELSE IF r.GymSlug = "" \/ r.Amount <= 0 \/ r.Title = ""
    THEN [response |-> FailedResponse("gym_slug, amount, and title are required",
                                      "VALIDATION_ERROR"),
          err |-> Nil, calls |-> <<>>]
    ELSE LET g == Adapter_CreatePreference(r.MPAccessToken, r, gw)
             call == Call("CreatePreference",
                          [accessToken |-> r.MPAccessToken,
                           GymSlug |-> r.GymSlug,
                           request |-> Adapter_preference_Request(r)],
                          g.err = Nil)
         IN  IF g.err # Nil
             THEN [response |-> FailedResponse("Failed to create payment preference",
                                               "GATEWAY_ERROR"),
                   err |-> Nil, calls |-> <<call>>]
             ELSE [response |-> g.response, err |-> Nil, calls |-> <<call>>]

\* the status PaymentHandler.CreateCheckout writes for what the service
\* returned
PaymentHandler_Status(r) ==
    IF r.err # Nil THEN 500
    ELSE IF ~r.response.Success THEN 400
    ELSE 200

\* POST /api/v1/payments/checkout of the "django" build: the middleware of
\* the route group, then PaymentHandler.CreateCheckout
PaymentHandler_CreateCheckout(auth, body, gw) ==
    /\ variant = "django"
    /\ co = NoCo
    /\ co' =
         IF ~ServiceAuthMiddleware(auth)
         THEN [op |-> "http", auth |-> auth, order |-> body, gw |-> gw,
               reached |-> FALSE, calls |-> <<>>,
               response |-> NoPaymentResponse, err |-> NotCalled,
               status |-> 401,
               json |-> FailedResponse("Authorization", "UNAUTHORIZED")]
         ELSE IF ~ShouldBindJSON_PaymentRequest(body)
         THEN [op |-> "http", auth |-> auth, order |-> body, gw |-> gw,
               reached |-> FALSE, calls |-> <<>>,
               response |-> NoPaymentResponse, err |-> NotCalled,
               status |-> 400,
               json |-> FailedResponse("Invalid request", "VALIDATION_ERROR")]
         ELSE LET r == PaymentService_CreateCheckout(body, gw)
              IN  [op |-> "http", auth |-> auth, order |-> body, gw |-> gw,
                   reached |-> TRUE, calls |-> r.calls,
                   response |-> r.response, err |-> r.err,
                   status |-> PaymentHandler_Status(r),
                   json |-> IF r.err # Nil
                            THEN FailedResponse("Internal server error",
                                                "INTERNAL_ERROR")
                            ELSE r.response]
    /\ UNCHANGED <<webhookVars, fx, cc>>

\* PaymentService.CreateCheckout called by another caller than the handler
\* (it is exported): the request has not gone through the binding
Call_PaymentService_CreateCheckout(r, gw) ==
    /\ variant = "django"
    /\ co = NoCo
    /\ LET x == PaymentService_CreateCheckout(r, gw)
       IN  co' = [op |-> "service", auth |-> EmptyStr, order |-> r, gw |-> gw,
                  reached |-> TRUE, calls |-> x.calls,
                  response |-> x.response, err |-> x.err,
                  status |-> 0, json |-> NoPaymentResponse]
    /\ UNCHANGED <<webhookVars, fx, cc>>

(* "core" build *)

\* no *domain.PaymentPreference (a nil pointer)
NoPreference == [nil |-> TRUE, ID |-> "", InitPoint |-> ""]

\* the preference.Request mercadopago.Adapter.CreatePreference
\* (unnamed/part_007) sends to the provider; its external reference is
\* made of the slug and the clock and is left out
PlatformAdapter_preference_Request(order) ==
    [Title |-> order.Title, Quantity |-> 1, UnitPrice |-> order.Amount,
     PayerEmail |-> order.PayerEmail,
     BackURLs |->
        [Success |-> SprintfURL("https://fitstackapp.com",
                                <<"gym", order.GymSlug, "payment", "success">>),
         Failure |-> SprintfURL("https://fitstackapp.com",
                                <<"gym", order.GymSlug, "payment", "failure">>),
         Pending |-> SprintfURL("https://fitstackapp.com",
                                <<"gym", order.GymSlug, "payment", "pending">>)],
     NotificationURL |-> SprintfURL("https://api.fitstackapp.com",
                                    <<"payments", "webhook", order.GymSlug>>)]

\* mercadopago.Adapter.CreatePreference (unnamed/part_007)
PlatformAdapter_CreatePreference(accessToken, order, outcome) ==
    IF ~outcome.ok
    THEN [err |-> Errorf("failed to create preference"),
          preference |-> NoPreference]
    ELSE [err |-> Nil,
          preference |-> [nil |-> FALSE, ID |-> outcome.ID,
                          InitPoint |-> outcome.InitPoint]]

validateOrder(order) ==
    IF order.GymSlug = ""
    THEN NewPaymentError("ErrInvalidPaymentOrder", "VALIDATION_ERROR")
    ELSE IF order.Amount <= 0
    THEN NewPaymentError("ErrInvalidPaymentOrder", "VALIDATION_ERROR")
    ELSE IF order.Title = ""
    THEN NewPaymentError("ErrInvalidPaymentOrder", "VALIDATION_ERROR")
    ELSE IF order.PayerEmail = ""
    THEN NewPaymentError("ErrInvalidPaymentOrder", "VALIDATION_ERROR")
    ELSE Nil

\* mutant: the enabled flag of the tenant is not looked at
Service_CreateCheckout_NoEnabledCheck(order, cfgOutcome, gw) ==
    LET v == validateOrder(order)
        cfg == GetGymConfig(order.GymSlug, cfgOutcome)
        c1 == Call("GetGymConfig", order.GymSlug, cfg.err = Nil)
    IN  IF v # Nil
        THEN [preference |-> NoPreference, err |-> v, calls |-> <<>>]
        ELSE IF cfg.err # Nil
        THEN [preference |-> NoPreference,
              err |-> IF cfg.err.sentinel = "ErrGymNotFound"
                      THEN NewPaymentError("ErrGymNotFound", "GYM_NOT_FOUND")
                      ELSE NewPaymentError("ErrCoreAPIError", "CORE_API_ERROR"),
              calls |-> <<c1>>]
        ELSE IF cfg.AccessToken = ""
        THEN [preference |-> NoPreference,
              err |-> NewPaymentError("ErrInvalidAccessToken", "INVALID_TOKEN"),
              calls |-> <<c1>>]
        ELSE LET g == PlatformAdapter_CreatePreference(cfg.AccessToken,
                                                       order, gw)
                 c2 == Call("CreatePreference",
                            [accessToken |-> cfg.AccessToken,
                             GymSlug |-> order.GymSlug,
                             request |->
                                 PlatformAdapter_preference_Request(order)],
                            g.err = Nil)
             IN  IF g.err # Nil
                 THEN [preference |-> NoPreference,
                       err |-> NewPaymentError("ErrPaymentGatewayError",
                                               "GATEWAY_ERROR"),
                       calls |-> <<c1, c2>>]
                 ELSE [preference |-> g.preference, err |-> Nil,
                       calls |-> <<c1, c2>>]

\* Service.CreateCheckout: the preference, the error and the collaborator
\* calls made, for one answer of the backend and one of the provider
Service_CreateCheckout(order, cfgOutcome, gw) ==
    LET v == validateOrder(order)
        cfg == GetGymConfig(order.GymSlug, cfgOutcome)
        c1 == Call("GetGymConfig", order.GymSlug, cfg.err = Nil)
    IN  IF v # Nil
        THEN [preference |-> NoPreference, err |-> v, calls |-> <<>>]
        ELSE IF cfg.err # Nil
        THEN [preference |-> NoPreference,
              err |-> IF cfg.err.sentinel = "ErrGymNotFound"
                      THEN NewPaymentError("ErrGymNotFound", "GYM_NOT_FOUND")
                      ELSE NewPaymentError("ErrCoreAPIError", "CORE_API_ERROR"),
              calls |-> <<c1>>]
        ELSE IF ~cfg.IsPaymentEnabled
        THEN [preference |-> NoPreference,
              err |-> NewPaymentError("ErrPaymentNotEnabled",
                                      "PAYMENT_NOT_ENABLED"),
              calls |-> <<c1>>]
        ELSE IF cfg.AccessToken = ""
        THEN [preference |-> NoPreference,
              err |-> NewPaymentError("ErrInvalidAccessToken", "INVALID_TOKEN"),
              calls |-> <<c1>>]
        ELSE LET g == PlatformAdapter_CreatePreference(cfg.AccessToken,
                                                       order, gw)
                 c2 == Call("CreatePreference",
                            [accessToken |-> cfg.AccessToken,
                             GymSlug |-> order.GymSlug,
                             request |->
                                 PlatformAdapter_preference_Request(order)],
                            g.err = Nil)
             IN  IF g.err # Nil
                 THEN [preference |-> NoPreference,
                       err |-> NewPaymentError("ErrPaymentGatewayError",
                                               "GATEWAY_ERROR"),
                       calls |-> <<c1, c2>>]
                 ELSE [preference |-> g.preference, err |-> Nil,
                       calls |-> <<c1, c2>>]

\* handleServiceError: the status for a *domain.PaymentError
handleServiceError(e) ==
    CASE e.sentinel = "ErrGymNotFound" -> 404
      [] e.sentinel = "ErrPaymentNotEnabled" -> 403
      [] e.sentinel = "ErrInvalidPaymentOrder" -> 400
      [] e.sentinel = "ErrInvalidAccessToken" -> 500
      [] e.sentinel = "ErrPaymentGatewayError" -> 502
      [] OTHER -> 500

\* api.ErrorResponse / api.CheckoutResponse
CheckoutJSON(success, initPoint, code) ==
    [Success |-> success, InitPoint |-> initPoint, Code |-> code]

\* POST /api/v1/payments/checkout of the "core" build: the route has no
\* authentication middleware (JWTAuthMiddleware is commented out), so the
\* Authorization header is read by nobody
Handler_CreateCheckout(auth, body, cfgOutcome, gw) ==
    /\ variant = "core"
    /\ co = NoCo
    /\ co' =
         IF ~ShouldBindJSON_CheckoutRequest(body)
         THEN [op |-> "http", auth |-> auth, order |-> body, gw |-> gw,
               cfg |-> cfgOutcome, reached |-> FALSE, calls |-> <<>>,
               preference |-> NoPreference, err |-> NotCalled,
               status |-> 400,
               json |-> CheckoutJSON(FALSE, "", "VALIDATION_ERROR")]
         ELSE LET r == Service_CreateCheckout(body, cfgOutcome, gw)
              IN  [op |-> "http", auth |-> auth, order |-> body, gw |-> gw,
                   cfg |-> cfgOutcome, reached |-> TRUE, calls |-> r.calls,
                   preference |-> r.preference, err |-> r.err,
                   status |-> IF r.err # Nil THEN handleServiceError(r.err)
                              ELSE 200,
                   json |-> IF r.err # Nil
                            THEN CheckoutJSON(FALSE, "", r.err.code)
                            ELSE CheckoutJSON(TRUE, r.preference.InitPoint, "")]
    /\ UNCHANGED <<webhookVars, fx, cc>>

\* Service.CreateCheckout called by another caller than the handler
Call_Service_CreateCheckout(order, cfgOutcome, gw) ==
    /\ variant = "core"
    /\ co = NoCo
    /\ LET x == Service_CreateCheckout(order, cfgOutcome, gw)
       IN  co' = [op |-> "service", auth |-> EmptyStr, order |-> order,
                  gw |-> gw, cfg |-> cfgOutcome, reached |-> TRUE,
                  calls |-> x.calls, preference |-> x.preference,
                  err |-> x.err, status |-> 0,
                  json |-> CheckoutJSON(FALSE, "", "")]
    /\ UNCHANGED <<webhookVars, fx, cc>>

\* answers of the backend to GET payment-config for the tenant of an order
ConfigOutcomes(order) ==
    IF order.GymSlug = "" THEN {TransportError} ELSE CredOutcomes(order.GymSlug)

\* the POST routes of handlers.SetupRouter, for a path given by its
\* segments: the handler and the value of :gym_slug (one non-empty segment)
handlers_SetupRouter_POST(path) ==
    IF path = <<"api", "v1", "payments", "checkout">>
    THEN [handler |-> "CreateCheckout", gym_slug |-> ""]
    ELSE IF Len(path) = 2 /\ path[1] = "webhooks" /\ path[2] # ""
    THEN [handler |-> "HandleWebhook", gym_slug |-> path[2]]
    ELSE [handler |-> "404", gym_slug |-> ""]

\* the POST routes of api.SetupRouter
api_SetupRouter_POST(path) ==
    IF path = <<"api", "v1", "payments", "checkout">>
    THEN [handler |-> "CreateCheckout", gym_slug |-> ""]
    ELSE IF Len(path) = 2 /\ path[1] = "webhook" /\ path[2] # ""
    THEN [handler |-> "HandleWebhook", gym_slug |-> path[2]]
    ELSE [handler |-> "404", gym_slug |-> ""]

\* the router of the build that runs
SetupRouter_POST(path) ==
    IF variant = "django" THEN handlers_SetupRouter_POST(path)
    ELSE api_SetupRouter_POST(path)

NextCheckout ==
    \/ \E a \in AuthHeaders, b \in PaymentRequests, g \in PreferenceOutcomes :
          PaymentHandler_CreateCheckout(a, b, g)
    \/ \E r \in PaymentRequests, g \in PreferenceOutcomes :
          Call_PaymentService_CreateCheckout(r, g)
    \/ \E a \in {EmptyStr, Bearer \o <<" ">> \o ServiceAPIKey},
          b \in PaymentOrders, g \in PreferenceOutcomes :
          \E c \in ConfigOutcomes(b) : Handler_CreateCheckout(a, b, c, g)
    \/ \E o \in PaymentOrders, g \in PreferenceOutcomes :
          \E c \in ConfigOutcomes(o) : Call_Service_CreateCheckout(o, c, g)

SpecCheckout == Init /\ [][NextCheckout]_vars

---------------------------------------------------------------------------
(* Concurrent requests of the "django" build: net/http runs every request  *)
(* in a goroutine of its own.  The goroutines share the PaymentService,    *)
(* the Adapter, the Client and the WebhookValidator values; gymSlug,       *)
(* secret, accessToken and the request are parameters and locals of each   *)
(* call.  A step of a goroutine is one collaborator call.                  *)

\* tenants of the concurrent requests
ConcSlugs == {"g1", "g2"}

\* answers of the backend to a credentials request
ConcCredOutcomes == {Http(200, "ok"), Http(500, "ok")}

\* mutant: the adapter keeps the configuration of its first call
config_New_Cached(a, accessToken) ==
    IF a = <<>> THEN [cfg |-> accessToken, a |-> <<accessToken>>]
    ELSE [cfg |-> a[1], a |-> a]

\* cfg, err := config.New(accessToken): a configuration made for this call
\* from the argument; the Adapter (a) has no field to keep one in
config_New(a, accessToken) == [cfg |-> accessToken, a |-> a]

\* goroutine p goes on as g, the rest of cc as it is
GoStep(p, g) == cc' = [cc EXCEPT !.g[p] = g]

\* a webhook request for slug, signed under sigKey, is given to goroutine p
\* and ProcessWebhook is entered
Go_HandleWebhook(p, slug, sigKey) ==
    /\ variant = "django"
    /\ cc.g[p].pc \in {"idle", "done"}
    /\ cc.started < MaxInvocations
    /\ cc' = [cc EXCEPT !.g[p] = [IdleGoroutine EXCEPT
                                   !.pc = "GetWebhookSecret",
                                   !.kind = "webhook", !.slug = slug,
                                   !.sigKey = sigKey, !.err = Running],
                        !.started = cc.started + 1]
    /\ UNCHANGED <<webhookVars, fx, co>>

\* Step 1 in goroutine p
Go_GetWebhookSecret(p, outcome) ==
    /\ cc.g[p].pc = "GetWebhookSecret"
    /\ LET g == cc.g[p]
           creds == getGymCredentials(g.slug, outcome)
       IN  IF creds.err # Nil
           THEN GoStep(p, [g EXCEPT !.pc = "done",
                                    !.err = NewServiceError("ErrGymNotFound",
                                                            "GYM_NOT_FOUND")])
           ELSE GoStep(p, [g EXCEPT !.pc = "ValidateSignature",
                                    !.secret = creds.WebhookSecret])
    /\ UNCHANGED <<webhookVars, fx, co>>

\* Step 2 in goroutine p: the secret handed to ValidateSignature is the
\* local of this call
Go_ValidateSignature(p) ==
    /\ cc.g[p].pc = "ValidateSignature"
    /\ LET g == cc.g[p]
           xSignature == SignedHeader(<<"5">>, <<"r">>, <<"1">>, g.sigKey)
           valid == ValidateSignature(xSignature, <<"r">>, <<"1">>, g.secret)
       IN  IF ~valid
           THEN GoStep(p, [g EXCEPT !.pc = "done",
                                    !.verified = <<g.secret>>,
                                    !.err = Bare("ErrWebhookValidationFailed")])
           ELSE GoStep(p, [g EXCEPT !.pc = "GetAccessToken",
                                    !.verified = <<g.secret>>])
    /\ UNCHANGED <<webhookVars, fx, co>>

\* Step 4 in goroutine p
Go_GetAccessToken(p, outcome) ==
    /\ cc.g[p].pc = "GetAccessToken"
    /\ LET g == cc.g[p]
           creds == getGymCredentials(g.slug, outcome)
       IN  IF creds.err # Nil
           THEN GoStep(p, [g EXCEPT !.pc = "done", !.err = creds.err])
           ELSE GoStep(p, [g EXCEPT !.pc = "GetPaymentInfo",
                                    !.token = creds.AccessToken])
    /\ UNCHANGED <<webhookVars, fx, co>>

\* Step 5 in goroutine p: Adapter.GetPaymentInfo makes its configuration
\* from the accessToken argument
Go_GetPaymentInfo(p, outcome) ==
    /\ cc.g[p].pc = "GetPaymentInfo"
    /\ LET g == cc.g[p]
           c == config_New(cc.adapter, g.token)
           r == Adapter_GetPaymentInfo(c.cfg, <<"1">>, outcome)
       IN  cc' = [cc EXCEPT !.adapter = c.a,
                            !.g[p] = [g EXCEPT
                                !.configured = <<c.cfg>>,
                                !.pc = IF r.err # Nil THEN "done"
                                       ELSE "NotifyPaymentConfirmed",
                                !.err = IF r.err # Nil THEN r.err ELSE g.err]]
    /\ UNCHANGED <<webhookVars, fx, co>>

\* Step 7 in goroutine p
Go_NotifyPaymentConfirmed(p, outcome) ==
    /\ cc.g[p].pc = "NotifyPaymentConfirmed"
    /\ GoStep(p, [cc.g[p] EXCEPT !.pc = "done",
                                 !.err = NotifyPaymentConfirmed(outcome)])
    /\ UNCHANGED <<webhookVars, fx, co>>

\* a checkout request that carries the token inline is given to goroutine
\* p: PaymentService.CreateCheckout up to the call of the gateway
Go_CreateCheckout(p, r) ==
    /\ variant = "django"
    /\ cc.g[p].pc \in {"idle", "done"}
    /\ cc.started < MaxInvocations
    /\ ShouldBindJSON_PaymentRequest(r)
    /\ cc' = [cc EXCEPT !.g[p] = [IdleGoroutine EXCEPT
                                   !.pc = "CreatePreference",
                                   !.kind = "checkout", !.slug = r.GymSlug,
                                   !.inline = r.MPAccessToken,
                                   !.err = Running],
                        !.started = cc.started + 1]
    /\ UNCHANGED <<webhookVars, fx, co>>

\* gateway.CreatePreference in goroutine p: Adapter.CreatePreference makes
\* its configuration from the accessToken argument
Go_CreatePreference(p, gw) ==
    /\ cc.g[p].pc = "CreatePreference"
    /\ LET g == cc.g[p]
           c == config_New(cc.adapter, g.inline)
       IN  cc' = [cc EXCEPT !.adapter = c.a,
                            !.g[p] = [g EXCEPT !.configured = <<c.cfg>>,
                                               !.pc = "done",
                                               !.err = Nil]]
    /\ UNCHANGED <<webhookVars, fx, co>>

\* checkout bodies of the concurrent requests: each tenant with its token
ConcPaymentRequests ==
    {[GymSlug |-> slug, Amount |-> 1500, Title |-> "Plan",
      PayerEmail |-> "a@gym.io", ExternalReference |-> "order-42",
      MPAccessToken |-> AccessTokenOf(slug), SuccessURL |-> "",
      FailureURL |-> "", PendingURL |-> ""] : slug \in ConcSlugs}

\* keys a sender signs a notification with: the secrets of the tenants
ConcSigKeys == {WebhookSecretOf(slug) : slug \in ConcSlugs}

InitConc ==
    /\ Init
    /\ variant = "django"

NextConc ==
    \/ \E p \in Goroutines, slug \in ConcSlugs, k \in ConcSigKeys :
          Go_HandleWebhook(p, slug, k)
    \/ \E p \in Goroutines, o \in ConcCredOutcomes : Go_GetWebhookSecret(p, o)
    \/ \E p \in Goroutines : Go_ValidateSignature(p)
    \/ \E p \in Goroutines, o \in ConcCredOutcomes : Go_GetAccessToken(p, o)
    \/ \E p \in Goroutines, o \in {[ok |-> FALSE]} \cup
                              {x \in GetOutcomes : x.ok /\ x.result.Status = "approved"
                                                   /\ x.result.ExternalReference = "order-42"} :
          Go_GetPaymentInfo(p, o)
    \/ \E p \in Goroutines, o \in {Http(200, "ok"), Http(500, "ok")} :
          Go_NotifyPaymentConfirmed(p, o)
    \/ \E p \in Goroutines, r \in ConcPaymentRequests : Go_CreateCheckout(p, r)
    \/ \E p \in Goroutines, g \in PreferenceOutcomes : Go_CreatePreference(p, g)

SpecConc == InitConc /\ [][NextConc]_vars

---------------------------------------------------------------------------
(* What the "django" build writes to its log.  A log line is the sequence  *)
(* of its parts: the pieces of the format string and the values printed.   *)
(* A part is a string (s), a byte string (b) or a number (n).              *)

LogS(x) == [s |-> x, b |-> EmptyStr, n |-> 0]

LogB(x) == [s |-> "", b |-> x, n |-> 0]

LogN(x) == [s |-> "", b |-> EmptyStr, n |-> x]

\* err.Error() of what getGymCredentials returns: Message + ": " + Err
getGymCredentials_Error(outcome) ==
    IF outcome = TransportError
    THEN <<LogS("request failed: "), LogS("<http client error>"),
           LogS("gym not found")>>
    ELSE IF outcome.status = 404
    THEN <<LogS("gym not found")>>
    ELSE IF outcome.status # 200
    THEN <<LogS("Django returned status "), LogN(outcome.status),
           LogS("gym not found")>>
    ELSE <<LogS("failed to decode response"), LogS("gym not found")>>

\* err.Error() of what Adapter.GetPaymentInfo returns; the text of the
\* SDK's error is the provider's
Adapter_GetPaymentInfo_Error(accessToken, paymentID, outcome) ==
    IF ~AtoiOk(paymentID)
    THEN <<LogS("invalid payment ID format"), LogS("invalid request")>>
    ELSE <<LogS("failed to get payment info: "), LogS("<sdk error>"),
           LogS("payment gateway error")>>

\* mutant: the message of the gateway error names the token of the call
Adapter_CreatePreference_Error_WithToken(accessToken, outcome) ==
    <<LogS("failed to create preference: "), LogS("<sdk error>"),
      LogS(accessToken), LogS("payment gateway error")>>

\* err.Error() of what Adapter.CreatePreference returns
Adapter_CreatePreference_Error(accessToken, outcome) ==
    <<LogS("failed to create preference: "), LogS("<sdk error>"),
      LogS("payment gateway error")>>

\* err.Error() of what NotifyPaymentConfirmed returns; the body is the
\* backend's
NotifyPaymentConfirmed_Error(outcome) ==
    IF outcome = TransportError
    THEN <<LogS("request failed: "), LogS("<http client error>"),
           LogS("failed to notify Django backend")>>
    ELSE <<LogS("Django returned status "), LogN(outcome.status),
           LogS(outcome.body), LogS("failed to notify Django backend")>>

\* the credentials a backend that stores  stored  for the tenant returns
getGymCredentialsOf(slug, outcome, stored) ==
    LET c == getGymCredentials(slug, outcome)
    IN  IF c.err # Nil THEN c
        ELSE [err |-> Nil, WebhookSecret |-> stored.WebhookSecret,
              AccessToken |-> stored.AccessToken]

\* the log.Printf calls of PaymentService.ProcessWebhook for one request,
\* the credentials the backend stores and one answer of each collaborator:
\* the lines written and the error returned
PaymentService_ProcessWebhook_Lines(gymSlug, n, xSignature, xRequestID, stored, o1, o4, oGet, oNotify) ==
    LET c1 == getGymCredentialsOf(gymSlug, o1, stored)
        c4 == getGymCredentialsOf(gymSlug, o4, stored)
        valid == ValidateSignature(xSignature, xRequestID, n.dataID,
                                   c1.WebhookSecret)
        p == Adapter_GetPaymentInfo(c4.AccessToken, n.dataID, oGet)
        e == NotifyPaymentConfirmed(oNotify)
    IN  IF c1.err # Nil
        THEN [lines |-> <<<<LogS("Failed to get webhook secret for gym "),
                            LogS(gymSlug)>> \o getGymCredentials_Error(o1)>>,
              err |-> NewServiceError("ErrGymNotFound", "GYM_NOT_FOUND"),
              text |-> <<LogS("gym not found: "), LogS(gymSlug),
                         LogS("gym not found")>>]
        ELSE IF ~valid
        THEN [lines |-> <<<<LogS("Webhook signature validation failed for gym "),
                            LogS(gymSlug)>>>>,
              err |-> Bare("ErrWebhookValidationFailed"),
              text |-> <<LogS("webhook signature validation failed")>>]
        ELSE IF n.type # "payment"
        THEN [lines |-> <<<<LogS("Ignoring webhook type: "), LogS(n.type),
                            LogS(" for gym "), LogS(gymSlug)>>>>,
              err |-> Nil, text |-> <<>>]
        ELSE IF c4.err # Nil
        THEN [lines |-> <<<<LogS("Failed to get access token for gym "),
                            LogS(gymSlug)>> \o getGymCredentials_Error(o4)>>,
              err |-> c4.err, text |-> getGymCredentials_Error(o4)]
        ELSE IF p.err # Nil
        THEN [lines |-> <<<<LogS("Failed to get payment info "),
                            LogB(n.dataID), LogS(" for gym "), LogS(gymSlug)>>
                          \o Adapter_GetPaymentInfo_Error(c4.AccessToken,
                                                          n.dataID, oGet)>>,
              err |-> p.err,
              text |-> Adapter_GetPaymentInfo_Error(c4.AccessToken, n.dataID,
                                                    oGet)]
        ELSE IF e # Nil
        THEN [lines |-> <<<<LogS("Failed to notify Django for payment "),
                            LogB(n.dataID)>>
                          \o NotifyPaymentConfirmed_Error(oNotify)>>,
              err |-> e, text |-> NotifyPaymentConfirmed_Error(oNotify)]
        ELSE [lines |-> <<<<LogS("Webhook processed: payment "),
                            LogB(n.dataID), LogS(", status "),
                            LogS(p.info.Status), LogS(", gym "),
                            LogS(gymSlug)>>>>,
              err |-> Nil, text |-> <<>>]

\* the lines of PaymentHandler.HandleWebhook for a body that parsed: those
\* of ProcessWebhook, then the error it returned
PaymentHandler_HandleWebhook_Lines(gymSlug, n, xSignature, xRequestID, stored, o1, o4, oGet, oNotify) ==
    LET r == PaymentService_ProcessWebhook_Lines(gymSlug, n, xSignature,
                                                 xRequestID, stored, o1, o4,
                                                 oGet, oNotify)
    IN  [lines |-> IF r.err # Nil
                   THEN Append(r.lines,
                               <<LogS("Webhook processing error for gym "),
                                 LogS(gymSlug)>> \o r.text)
                   ELSE r.lines,
         err |-> r.err]

\* the log.Printf calls of PaymentService.CreateCheckout
PaymentService_CreateCheckout_Lines(r, gw) ==
    LET x == PaymentService_CreateCheckout(r, gw)
    IN  IF x.calls = <<>> THEN <<>>
        ELSE IF ~x.calls[1].ok
        THEN <<<<LogS("Failed to create preference for gym "),
                 LogS(r.GymSlug)>>
               \o Adapter_CreatePreference_Error(r.MPAccessToken, gw)>>
        ELSE <<<<LogS("Created preference "), LogS(x.response.PreferenceID),
                 LogS(" for gym "), LogS(r.GymSlug), LogS(", amount: "),
                 LogN(r.Amount)>>>>

\* credentials a backend may store for a tenant
StoredCredentials ==
    [WebhookSecret : {<<"k">>, <<"j">>}, AccessToken : {"tok-g1", "tok-g2"}]

\* two webhook requests that differ in the stored credentials only
Fn_HandleWebhook_Lines(gymSlug, n, sigKey, storedA, storedB, o1, o4, oGet, oNotify) ==
    /\ fx = NoFx
    /\ LET xSignature == SignedHeader(<<"5">>, <<"r">>, n.dataID, sigKey)
           a == PaymentHandler_HandleWebhook_Lines(gymSlug, n, xSignature,
                                                   <<"r">>, storedA, o1, o4,
                                                   oGet, oNotify)
           b == PaymentHandler_HandleWebhook_Lines(gymSlug, n, xSignature,
                                                   <<"r">>, storedB, o1, o4,
                                                   oGet, oNotify)
       IN  fx' = [op |-> "Lines", path |-> "webhook",
                  input |-> [gymSlug |-> gymSlug, notification |-> n,
                             xSignature |-> xSignature, o1 |-> o1, o4 |-> o4,
                             oGet |-> oGet, oNotify |-> oNotify],
                  secretA |-> storedA.WebhookSecret,
                  tokenA |-> storedA.AccessToken,
                  secretB |-> storedB.WebhookSecret,
                  tokenB |-> storedB.AccessToken,
                  linesA |-> a.lines, linesB |-> b.lines,
                  resultA |-> a.err, resultB |-> b.err]
    /\ UNCHANGED svcVars

\* two calls of CreateCheckout that differ in the inline token only
Fn_CreateCheckout_Lines(r, tokenA, tokenB, gw) ==
    /\ fx = NoFx
    /\ LET ra == [r EXCEPT !.MPAccessToken = tokenA]
           rb == [r EXCEPT !.MPAccessToken = tokenB]
       IN  fx' = [op |-> "Lines", path |-> "checkout",
                  input |-> [r |-> r, gw |-> gw],
                  secretA |-> EmptyStr, tokenA |-> tokenA,
                  secretB |-> EmptyStr, tokenB |-> tokenB,
                  linesA |-> PaymentService_CreateCheckout_Lines(ra, gw),
                  linesB |-> PaymentService_CreateCheckout_Lines(rb, gw),
                  resultA |-> PaymentService_CreateCheckout(ra, gw).response,
                  resultB |-> PaymentService_CreateCheckout(rb, gw).response]
    /\ UNCHANGED svcVars

NextLog ==
    \/ \E slug \in {"g1", "gx"},
          n \in {x \in Notifications : x.dataID \in {<<"1">>, <<"x">>}},
          k \in {<<"k">>, <<"j">>}, sa \in StoredCredentials,
          sb \in StoredCredentials,
          o4 \in {Http(200, "ok"), Http(500, "ok")},
          oGet \in {[ok |-> FALSE]} \cup
                   {x \in GetOutcomes : x.ok /\ x.result.Status = "approved"
                                        /\ x.result.ExternalReference = "order-42"},
          oNotify \in {Http(200, "ok"), Http(500, "ok"), TransportError} :
          \E o1 \in {x \in CredOutcomes(slug) : x.status \in {0, 200, 404}
                                                 /\ x.body # "malformed"} :
              Fn_HandleWebhook_Lines(slug, n, k, sa, sb, o1, o4, oGet, oNotify)
    \/ \E r \in ConcPaymentRequests, ta \in {"", "tok-g1", "tok-g2"},
          tb \in {"", "tok-g1", "tok-g2"}, gw \in PreferenceOutcomes :
          Fn_CreateCheckout_Lines(r, ta, tb, gw)

SpecLog == InitConc /\ [][NextLog]_vars

---------------------------------------------------------------------------
(* The pure functions, applied to inputs drawn from bounded sets.          *)
(* fx records one application: the inputs and the result.                  *)

\* timestamps the provider writes after ts=
Timestamps == {<<"5">>, <<"1", "0">>}

\* webhook secrets of tenants
Secrets == {<<"k">>, <<"j">>}

\* status strings handed to mapStatusToEvent
StatusInputs == Statuses \cup {"APPROVED", "authorized", "charged_back"}

\* comma-separated entries a sender may put into x-signature; the v1 values
\* include the HMAC of the manifest for ts=5 under key
HeaderEntries(rid, dataID, key) ==
    LET mac == calculateHMAC(buildManifest(dataID, rid, <<"5">>), key)
    IN  {EmptyStr,
         TsKey,
         TsKey \o <<"5">>,
         <<"x">> \o TsKey \o <<"5">>,
         V1Key,
         V1Key \o <<"a", "b">>,
         V1Key \o mac,
         <<"a">> \o V1Key \o mac}

\* headers of at most MaxEntries entries
Headers(rid, dataID, key) ==
    {Join(es, <<Comma>>) :
        es \in UNION {[1..n -> HeaderEntries(rid, dataID, key)] :
                        n \in 0..MaxEntries}}

\* bytes a single-byte change of a header may write
AlterBytes == {"0", "5", "a", "A", "t", "v", "x", "=", ",", ";"}

Fn_mapStatusToEvent(status) ==
    /\ fx = NoFx
    /\ fx' = [op |-> "mapStatusToEvent", status |-> status,
              out |-> mapStatusToEvent(status)]
    /\ UNCHANGED svcVars

Fn_buildManifest(dataID, requestID, ts) ==
    /\ fx = NoFx
    /\ fx' = [op |-> "buildManifest", dataID |-> dataID,
              requestID |-> requestID, ts |-> ts,
              out |-> buildManifest(dataID, requestID, ts)]
    /\ UNCHANGED svcVars

Fn_ValidateSignature(xSignature, xRequestID, dataID, key) ==
    /\ fx = NoFx
    /\ fx' = [op |-> "ValidateSignature", xSignature |-> xSignature,
              xRequestID |-> xRequestID, dataID |-> dataID, secret |-> key,
              out |-> ValidateSignature(xSignature, xRequestID, dataID, key)]
    /\ UNCHANGED svcVars

\* the provider signs a notification under signKey
Fn_Sign(ts, rid, dataID, signKey) ==
    /\ fx = NoFx
    /\ fx' = [op |-> "Sign", xRequestID |-> rid, dataID |-> dataID,
              signKey |-> signKey,
              signed |-> SignedHeader(ts, rid, dataID, signKey)]
    /\ UNCHANGED svcVars

\* the service verifies the signed header under verifyKey
Fn_VerifySigned(verifyKey) ==
    /\ fx.op = "Sign"
    /\ fx' = [op |-> "VerifySigned", xSignature |-> fx.signed,
              signed |-> fx.signed, at |-> 0,
              xRequestID |-> fx.xRequestID, dataID |-> fx.dataID,
              signKey |-> fx.signKey, secret |-> verifyKey,
              out |-> ValidateSignature(fx.signed, fx.xRequestID, fx.dataID,
                                        verifyKey)]
    /\ UNCHANGED svcVars

\* the byte positions of the header signed last
SignedPositions == IF fx.op = "Sign" THEN 1..Len(fx.signed) ELSE {}

\* the signed header reaches the service with its byte at position i changed
Fn_VerifyAltered(i, c) ==
    /\ fx.op = "Sign"
    /\ i \in 1..Len(fx.signed)
    /\ fx.signed[i] # c
    /\ LET altered == WithByte(fx.signed, i, c)
       IN  fx' = [op |-> "VerifyAltered", xSignature |-> altered,
                  signed |-> fx.signed, at |-> i,
                  xRequestID |-> fx.xRequestID, dataID |-> fx.dataID,
                  signKey |-> fx.signKey, secret |-> fx.signKey,
                  out |-> ValidateSignature(altered, fx.xRequestID,
                                            fx.dataID, fx.signKey)]
    /\ UNCHANGED svcVars

\* the byte positions of the v1 value of the header signed last
MacPositions ==
    IF fx.op = "Sign"
    THEN LET h == parseSignatureHeader(fx.signed).hash
         IN  (Len(fx.signed) - Len(h) + 1)..Len(fx.signed)
    ELSE {}

\* two forgeries of the signed header are verified: the first differs from
\* the expected HMAC at position i only, the second at position j only
\* (j is the last byte: every position is compared with the last one)
Fn_VerifyTiming(i, j) ==
    /\ fx.op = "Sign"
    /\ i < j
    /\ LET a == ValidateSignatureTrace(WithByte(fx.signed, i, "x"),
                                       fx.xRequestID, fx.dataID, fx.signKey)
           b == ValidateSignatureTrace(WithByte(fx.signed, j, "x"),
                                       fx.xRequestID, fx.dataID, fx.signKey)
       IN  fx' = [op |-> "VerifyTiming", signed |-> fx.signed,
                  posA |-> i, posB |-> j,
                  outA |-> a.valid, outB |-> b.valid,
                  examinedA |-> a.examined, examinedB |-> b.examined]
    /\ UNCHANGED svcVars

InitFn ==
    /\ Init
    /\ variant = "django"

NextFn ==
    \/ \E status \in StatusInputs : Fn_mapStatusToEvent(status)
    \/ \E d \in DataIDs, r \in RequestIDs, t \in Timestamps \cup {EmptyStr} :
          Fn_buildManifest(d, r, t)
    \/ \E d \in DataIDs, r \in RequestIDs, k \in Secrets \cup {EmptyStr} :
          \E h \in Headers(r, d, k) : Fn_ValidateSignature(h, r, d, k)
    \/ \E t \in Timestamps, r \in RequestIDs, d \in DataIDs, k \in Secrets :
          Fn_Sign(t, r, d, k)
    \/ \E k2 \in Secrets \cup {EmptyStr} : Fn_VerifySigned(k2)
    \/ \E i \in SignedPositions, c \in AlterBytes : Fn_VerifyAltered(i, c)
    \/ \E i \in MacPositions : Fn_VerifyTiming(i, Len(fx.signed))

SpecFn == InitFn /\ [][NextFn]_vars

---------------------------------------------------------------------------
(* Properties of the webhook path (checked under Spec).                    *)

\* the positions of the calls of a collaborator in the request in flight
CallsOf(name) == {i \in 1..Len(log) : log[i].call = name}

\* C1: the Backend Notifier is called only in an invocation in which the
\* verification of that invocation's x-signature has already returned true.
\* The "core" build never verifies, and still notifies.
C1_NotifyOnlyAfterVerified ==
    \A i \in CallsOf("Notify") :
        \E j \in 1..(i - 1) : log[j].call = "ValidateSignature" /\ log[j].ok

\* C2: when the verification returns false, ProcessWebhook ends there with
\* ErrWebhookValidationFailed: no access token is resolved, no payment is
\* fetched, nothing is delivered, and the provider is answered 200.
C2_SignatureFailureIsTerminal ==
    \A i \in CallsOf("ValidateSignature") :
        ~log[i].ok =>
            /\ i = Len(log)
            /\ pc = "done"
            /\ err = Bare("ErrWebhookValidationFailed")
            /\ CallsOf("GetAccessToken") = {}
            /\ CallsOf("GetPaymentInfo") = {}
            /\ CallsOf("Notify") = {}
            /\ resp.code = 200

\* a tampered (not a missing) x-signature was refused
C2_Witness ==
    /\ pc = "done"
    /\ req.xSignature # EmptyStr
    /\ Len(log) = 2
    /\ log[2].call = "ValidateSignature"
    /\ ~log[2].ok
    /\ resp = [code |-> 200, status |-> "processed_with_error"]

\* C3: whatever ProcessWebhook returns for a notification that parsed, the
\* provider is answered 200.
C3_AlwaysAcknowledged ==
    (pc = "done" /\ req.parsed) => resp.code = 200

\* a delivery failure was answered 200
C3_Witness ==
    /\ pc = "done"
    /\ req.parsed
    /\ err.sentinel = "ErrDjangoCallbackFailed"
    /\ resp.code = 200

\* C4: the status string is "processed" exactly when ProcessWebhook
\* returned nil (ignored types included), "processed_with_error" exactly
\* when it returned an error (a signature failure included), "received"
\* exactly when the body did not parse, and then ProcessWebhook is not called.
C4_StatusString ==
    pc = "done" =>
        /\ (resp.status = "processed") = (err = Nil)
        /\ (resp.status = "processed_with_error") = (err \notin {Nil, NotCalled})
        /\ (resp.status = "received") = (~req.parsed)
        /\ (err = NotCalled) = (~req.parsed)
        /\ ~req.parsed => log = <<>>
        /\ (\E i \in CallsOf("ValidateSignature") : ~log[i].ok)
              => resp.status = "processed_with_error"
        /\ (req.parsed /\ req.type # "payment"
              /\ \A i \in 1..Len(log) : log[i].ok)
              => resp.status = "processed"

\* a verified notification of another type was ignored and reported processed
C4_Witness ==
    /\ pc = "done"
    /\ variant = "django"
    /\ req.type = "merchant_order"
    /\ CallsOf("ValidateSignature") # {}
    /\ err = Nil
    /\ resp.status = "processed"

\* C5 ("django" build): when the provider reports an approved payment, the
\* notifier is called exactly once in the invocation, with the event
\* payment.approved, the tenant of the URL, and the reference, id, status,
\* amount and payer email of the payment fetched.
C5_ApprovedEvent ==
    (/\ variant = "django"
     /\ pc = "done"
     /\ info.Status = "approved"
     /\ \E i \in CallsOf("GetPaymentInfo") : log[i].ok)
    => /\ Cardinality(CallsOf("Notify")) = 1
       /\ \A i \in CallsOf("Notify") :
            /\ log[i].arg.Event = "payment.approved"
            /\ log[i].arg.GymSlug = req.slug
            /\ log[i].arg.ExternalReference = info.ExternalReference
            /\ log[i].arg.PaymentID = info.PaymentID
            /\ log[i].arg.PaymentID = req.dataID
            /\ log[i].arg.PaymentStatus = "approved"
            /\ log[i].arg.Amount = info.Amount
            /\ log[i].arg.PayerEmail = info.PayerEmail

\* scenario C: approved, reference order-42
C5_Witness ==
    /\ variant = "django"
    /\ pc = "done"
    /\ CallsOf("Notify") # {}
    /\ \A i \in CallsOf("Notify") :
         /\ log[i].arg.Event = "payment.approved"
         /\ log[i].arg.ExternalReference = "order-42"
         /\ log[i].arg.Amount = 1500

\* C6: in one invocation the notifier and the gateway are called at most
\* once each, nothing follows a failed call, the notifier is called only
\* right after a successful fetch, and over all invocations there are at
\* most as many notifier calls as invocations.
C6_AtMostOnce ==
    /\ Cardinality(CallsOf("Notify")) <= 1
    /\ Cardinality(CallsOf("GetPaymentInfo")) <= 1
    /\ \A i \in 1..(Len(log) - 1) : log[i].ok
    /\ \A i \in CallsOf("Notify") :
         i > 1 /\ log[i - 1].call = "GetPaymentInfo" /\ log[i - 1].ok
    /\ notifiedTotal <= invocations

\* two notifications in a row were both delivered: nothing is deduplicated
C6_Witness ==
    /\ pc = "done"
    /\ invocations = 2
    /\ notifiedTotal = 2

\* the calls of the Credential Resolver in the request in flight
C17_ResolverCalls ==
    CallsOf("GetWebhookSecret") \cup CallsOf("GetAccessToken")
        \cup CallsOf("GetGymConfig")

\* C17: the resolver returns an error that is ErrGymNotFound (errors.Is)
\* only when the backend answered 404; a transport failure, another status
\* or a body that does not decode gives another error, and ProcessWebhook
\* reports the tenant as not found only after a 404.  getGymCredentials
\* wraps ErrGymNotFound around every failure, and PaymentService reports
\* GYM_NOT_FOUND for every error of the resolver.
C17_NotFoundOnlyFor404 ==
    /\ \A i \in C17_ResolverCalls :
          log[i].returned.sentinel = "ErrGymNotFound"
              => log[i].answer.status = 404
    /\ (pc = "done" /\ err.sentinel = "ErrGymNotFound") =>
          \E i \in C17_ResolverCalls : log[i].answer.status = 404

\* the id is not a decimal integer: empty, or holding a byte that is no digit
C18_NotDecimal(s) ==
    s = <<>> \/ \E i \in 1..Len(s) : s[i] \notin Digits

\* C18: GetPaymentInfo called with an id that is not entirely a decimal
\* integer asks the provider nothing and returns an error that is not the
\* gateway error, and neither is the error ProcessWebhook returns.  The
\* adapter of the "core" build reads the leading digits of "1x" and asks
\* for payment 1, and Service.ProcessWebhook wraps every error of the
\* adapter in ErrPaymentGatewayError.
C18_InvalidPaymentID ==
    \A i \in CallsOf("GetPaymentInfo") :
        C18_NotDecimal(log[i].arg.paymentID) =>
            /\ ~log[i].arg.asked
            /\ ~log[i].ok
            /\ log[i].returned.sentinel # "ErrPaymentGatewayError"
            /\ pc = "done"
            /\ err.sentinel \notin {"nil", "ErrPaymentGatewayError"}

\* C19: the notifier makes one attempt, succeeds exactly when the backend
\* answered with a status in 200..299, and every other answer is a delivery
\* failure that ProcessWebhook returns.  NotifyPaymentStatus of the "core"
\* build accepts 200 and 201 only.
C19_DeliveredIff2xx ==
    /\ Cardinality(CallsOf("Notify")) <= 1
    /\ \A i \in CallsOf("Notify") :
          /\ log[i].ok = (log[i].answer.status \in 200..299)
          /\ ~log[i].ok =>
                /\ pc = "done"
                /\ err.sentinel \in {"ErrDjangoCallbackFailed",
                                     "ErrCoreAPIError"}

\* C20: a notification of another type than payment (its signature
\* verified, in the build that verifies) makes ProcessWebhook return nil
\* with no access token resolved, no payment fetched and nothing delivered.
C20_NonPaymentIgnored ==
    (/\ pc = "done"
     /\ req.parsed
     /\ req.type # "payment"
     /\ variant = "django" =>
            \E i \in CallsOf("ValidateSignature") : log[i].ok)
    => /\ err = Nil
       /\ CallsOf("GetAccessToken") = {}
       /\ CallsOf("GetPaymentInfo") = {}
       /\ CallsOf("Notify") = {}
       /\ variant = "core" => log = <<>>

\* a signed merchant_order notification with a request id: two calls, nil
C20_Witness ==
    /\ pc = "done"
    /\ variant = "django"
    /\ req.type = "merchant_order"
    /\ req.xRequestID # EmptyStr
    /\ Len(log) = 2
    /\ log[2].call = "ValidateSignature" /\ log[2].ok
    /\ err = Nil
    /\ resp.code = 200

\* the collaborator calls of PaymentService.ProcessWebhook, in the order
\* of its steps 1, 2, 4, 5 and 7
C21_Stages ==
    <<"GetWebhookSecret", "ValidateSignature", "GetAccessToken",
      "GetPaymentInfo", "Notify">>

\* C21: in every invocation of PaymentService.ProcessWebhook the stages run
\* in the fixed order resolve-secret, verify-signature, (resolve-token,)
\* fetch-payment, deliver: the k-th call of the invocation is the k-th
\* stage, so no stage runs twice or after a later one; a stage is started
\* only after every earlier one succeeded; the first failing stage is the
\* last call and ProcessWebhook has returned an error; the stage about to
\* run is the one after the calls made.
C21_StagesInOrder ==
    variant = "django" =>
        /\ Len(log) <= Len(C21_Stages)
        /\ \A i \in 1..Len(log) : log[i].call = C21_Stages[i]
        /\ \A i \in 1..(Len(log) - 1) : log[i].ok
        /\ (Len(log) > 0 /\ ~log[Len(log)].ok) =>
              pc = "done" /\ err \notin {Nil, NotCalled, Running}
        /\ pc \notin {"idle", "done"} =>
              /\ Len(log) < Len(C21_Stages)
              /\ pc = IF Len(log) = 4 THEN "NotifyPaymentConfirmed"
                      ELSE C21_Stages[Len(log) + 1]
        /\ (\E i \in CallsOf("GetWebhookSecret") : ~log[i].ok) =>
              /\ CallsOf("ValidateSignature") = {}
              /\ CallsOf("GetPaymentInfo") = {}
              /\ CallsOf("Notify") = {}

\* an invocation went through all stages and delivered
C21_Witness ==
    /\ variant = "django"
    /\ pc = "done"
    /\ Len(log) = 5
    /\ \A i \in 1..5 : log[i].ok
    /\ err = Nil

\* ProcessWebhook returned an error: the call that failed is the last one
C22_Failed ==
    /\ pc = "done"
    /\ Len(log) > 0
    /\ ~log[Len(log)].ok

\* C22: the error ProcessWebhook returns identifies the stage that failed:
\* ErrGymNotFound for a tenant the backend does not know (404),
\* ErrWebhookValidationFailed for a signature mismatch,
\* ErrPaymentGatewayError for every failure of GetPaymentInfo, the delivery
\* error (ErrDjangoCallbackFailed, ErrCoreAPIError) for every failure of
\* the notifier, and an error kind belongs to one stage only.
\* PaymentService.ProcessWebhook returns the error of GetAccessToken as it
\* is, which is ErrGymNotFound like a failure of the secret resolution, and
\* the error of GetPaymentInfo as it is, which is ErrInvalidRequest for an
\* id that does not parse.
C22_ErrorIdentifiesStage ==
    C22_Failed =>
        LET failed == log[Len(log)]
        IN  /\ (/\ failed.call \in {"GetWebhookSecret", "GetGymConfig"}
                /\ failed.answer.status = 404) =>
                  err.sentinel = "ErrGymNotFound"
            /\ failed.call = "ValidateSignature" =>
                  err.sentinel = "ErrWebhookValidationFailed"
            /\ failed.call = "GetPaymentInfo" =>
                  err.sentinel = "ErrPaymentGatewayError"
            /\ failed.call = "Notify" =>
                  err.sentinel \in {"ErrDjangoCallbackFailed", "ErrCoreAPIError"}
            /\ err.sentinel = "ErrGymNotFound" =>
                  failed.call \in {"GetWebhookSecret", "GetGymConfig"}
            /\ err.sentinel = "ErrWebhookValidationFailed" =>
                  failed.call = "ValidateSignature"
            /\ err.sentinel = "ErrPaymentGatewayError" =>
                  failed.call = "GetPaymentInfo"
            /\ err.sentinel \in {"ErrDjangoCallbackFailed", "ErrCoreAPIError"} =>
                  failed.call = "Notify"


\* the requests for a tenant's credentials the backend of record received
\* in the invocation: every resolver call is one GET of the credentials
C26_CredentialRequests ==
    {i \in 1..Len(log) :
        log[i].call \in {"GetWebhookSecret", "GetAccessToken", "GetGymConfig"}}

\* C26: in one invocation of ProcessWebhook the backend of record receives
\* at most one credential request: the webhook secret and the access token
\* come from the same credential response.
\* PaymentService.ProcessWebhook calls GetWebhookSecret and, after the
\* verification, GetAccessToken, and each of them sends its own GET.
C26_OneCredentialRequest ==
    Cardinality(C26_CredentialRequests) <= 1


\* does sequence x begin with sequence y
C30_BeginsWith(x, y) ==
    Len(y) <= Len(x) /\ SubSeq(x, 1, Len(y)) = y

\* C30: in every invocation of PaymentService.ProcessWebhook that calls
\* GetPaymentInfo, the payment id passed is the data.id of the
\* ValidateSignature call of that invocation, which returned true; and when
\* the provider is asked, the canonical message of that verification begins
\* with  id:<that payment id>;  so the signature covered the id.
C30_FetchesVerifiedID ==
    variant = "django" =>
        \A i \in CallsOf("GetPaymentInfo") :
            \E j \in CallsOf("ValidateSignature") :
                /\ j < i
                /\ log[j].ok
                /\ log[j].arg.dataID = log[i].arg.paymentID
                /\ log[i].arg.asked =>
                      C30_BeginsWith(
                          buildManifest(log[j].arg.dataID,
                                        log[j].arg.xRequestID,
                                        parseSignatureHeader(
                                            log[j].arg.xSignature).ts),
                          <<"i", "d", ":">> \o log[i].arg.paymentID
                              \o <<";">>)

\* the provider was asked about payment 1 after a signature over id:1
\* verified
C30_Witness ==
    /\ variant = "django"
    /\ \E i \in CallsOf("GetPaymentInfo") :
          /\ log[i].arg.asked
          /\ log[i].arg.paymentID = <<"1">>
    /\ \E j \in CallsOf("ValidateSignature") :
          log[j].ok /\ log[j].arg.dataID = <<"1">>


\* the invocation in flight made no call that failed
C27_AllSucceeded ==
    /\ req.type = "payment"
    /\ Len(log) > 0
    /\ \A i \in 1..Len(log) : log[i].ok

\* C27: when every collaborator call returns, every invocation of
\* PaymentService.ProcessWebhook returns, after at most one pass through
\* its stages (no more calls than stages); and an invocation for a
\* payment notification in which no call failed returns only after the
\* delivery, with success.
C27_EventuallyReturns ==
    /\ (variant = "django" /\ pc \notin {"idle", "done"}) ~> (pc = "done")
    /\ [](variant = "django" => Len(log) <= Len(C21_Stages))
    /\ []((variant = "django" /\ pc = "done" /\ C27_AllSucceeded) =>
            /\ Len(log) = Len(C21_Stages)
            /\ log[Len(log)].call = "Notify"
            /\ err = Nil
            /\ resp = WebhookResponse(Nil))

\* an invocation whose calls all succeeded has returned success and the
\* provider was answered "processed"
C27_Witness ==
    /\ variant = "django"
    /\ pc = "done"
    /\ C27_AllSucceeded
    /\ CallsOf("Notify") # {}
    /\ err = Nil
    /\ resp.status = "processed"

---------------------------------------------------------------------------
(* Properties of the checkout path (checked under SpecCheckout).           *)

\* the order of the request lacks a field CreateCheckout must have
C12_Invalid(order) ==
    \/ order.GymSlug = ""
    \/ order.Amount <= 0
    \/ order.Title = ""
    \/ order.PayerEmail = ""
    \/ (variant = "django" /\ order.MPAccessToken = "")

C13_Session ==
    /\ co.op # "none"
    /\ co.reached
    /\ IF variant = "django" THEN co.response.Success ELSE co.err = Nil

\* the gateway calls of the checkout request
C13_GatewayCalls ==
    {i \in 1..Len(co.calls) : co.calls[i].call = "CreatePreference"}

C14_SessionOrError ==
    (co.op # "none" /\ co.reached /\ ~C12_Invalid(co.order)) =>
        IF variant = "django"
        THEN /\ co.response.Success =>
                  /\ co.response.InitPoint # ""
                  /\ co.response.Error = ""
                  /\ co.response.ErrorCode = ""
             /\ ~co.response.Success =>
                  /\ co.response.ErrorCode # ""
                  /\ co.response.PreferenceID = ""
                  /\ co.response.InitPoint = ""
                  /\ co.response.SandboxInitPoint = ""
        ELSE /\ co.err = Nil =>
                  ~co.preference.nil /\ co.preference.InitPoint # ""
             /\ co.err # Nil => co.preference.nil /\ co.err.code # ""

\* the error kind of a failed checkout request
C15_Kind ==
    IF ~co.reached THEN "ValidationError"
    ELSE IF variant = "django"
    THEN CASE co.response.ErrorCode = "VALIDATION_ERROR" -> "ValidationError"
           [] co.response.ErrorCode = "GATEWAY_ERROR" -> "GatewayError"
           [] OTHER -> "other"
    ELSE CASE co.err.sentinel = "ErrInvalidPaymentOrder" -> "ValidationError"
           [] co.err.sentinel = "ErrGymNotFound" -> "TenantNotFound"
           [] co.err.sentinel = "ErrPaymentNotEnabled" -> "PaymentNotEnabled"
           [] co.err.sentinel = "ErrInvalidAccessToken" -> "InvalidAccessToken"
           [] co.err.sentinel = "ErrPaymentGatewayError" -> "GatewayError"
           [] OTHER -> "other"

\* C15: the HTTP status of a failed checkout request follows from the
\* error kind: ValidationError 400, TenantNotFound 404, PaymentNotEnabled
\* 403, InvalidAccessToken 500, GatewayError 502 or 500, never a 4xx.
\* PaymentHandler.CreateCheckout answers 400 to every unsuccessful response.
C15_StatusByKind ==
    (co.op = "http" /\ co.status \notin {200, 401}) =>
        CASE C15_Kind = "ValidationError" -> co.status = 400
          [] C15_Kind = "TenantNotFound" -> co.status = 404
          [] C15_Kind = "PaymentNotEnabled" -> co.status = 403
          [] C15_Kind = "InvalidAccessToken" -> co.status = 500
          [] C15_Kind = "GatewayError" -> co.status \in {500, 502}
          [] OTHER -> TRUE

\* C16: a checkout request without Authorization header, with a header
\* that is not  Bearer <token> , or with another token than the service's
\* credential is answered 401 and does not reach CreateCheckout.  No build
\* compares the token, and the route of the "core" build has no middleware.
C16_Unauthorized ==
    (co.op = "http" /\ co.auth # Bearer \o <<" ">> \o ServiceAPIKey) =>
        /\ co.status = 401
        /\ ~co.reached
        /\ co.calls = <<>>


\* the preference requests the checkout request sent to the provider
C25_Sent ==
    IF co.op = "none" THEN {}
    ELSE {co.calls[i].arg.request : i \in C13_GatewayCalls}

\* the redirect URL the caller supplied for an outcome ("" when none; the
\* order of the "core" build has no such field)
C25_Supplied(which) ==
    IF variant = "django"
    THEN CASE which = "Success" -> co.order.SuccessURL
           [] which = "Failure" -> co.order.FailureURL
           [] which = "Pending" -> co.order.PendingURL
    ELSE ""

\* the members of a sequence
C25_Range(seq) == {seq[i] : i \in 1..Len(seq)}

\* C25: each redirect URL sent to the provider is, independently of the
\* other two, the URL the caller supplied when there is one and otherwise
\* a computed URL that contains the tenant identifier; the notification
\* URL is computed and contains the tenant identifier.
C25_RedirectURLs ==
    \A q \in C25_Sent :
        /\ \A which \in {"Success", "Failure", "Pending"} :
              IF C25_Supplied(which) # ""
              THEN q.BackURLs[which] = CallerURL(C25_Supplied(which))
              ELSE /\ q.BackURLs[which].raw = ""
                   /\ co.order.GymSlug \in C25_Range(q.BackURLs[which].path)
        /\ q.NotificationURL.raw = ""
        /\ co.order.GymSlug \in C25_Range(q.NotificationURL.path)

\* a checkout whose caller supplied the failure URL only: the provider got
\* that URL and two computed ones
C25_Witness ==
    /\ variant = "django"
    /\ co.op = "http"
    /\ co.order.SuccessURL = ""
    /\ co.order.FailureURL # ""
    /\ co.order.PendingURL = ""
    /\ \E q \in C25_Sent :
          /\ q.BackURLs.Failure.raw = co.order.FailureURL
          /\ q.BackURLs.Success.path =
                <<"gym", co.order.GymSlug, "payment", "success">>
          /\ q.BackURLs.Pending.path =
                <<"gym", co.order.GymSlug, "payment", "pending">>

\* C28: the path of the notification URL registered with a session is
\* served by the webhook handler of the service that created the session,
\* with the tenant identifier of the session as its parameter.
C28_CallbackRouted ==
    \A q \in C25_Sent :
        SetupRouter_POST(q.NotificationURL.path) =
            [handler |-> "HandleWebhook", gym_slug |-> co.order.GymSlug]

---------------------------------------------------------------------------
(* Properties of concurrent requests (checked under SpecConc).             *)

\* C23: under every interleaving of checkout and webhook requests, the
\* secret handed to ValidateSignature in an invocation is the webhook
\* secret of the tenant of that invocation, the access token the gateway
\* configuration is made from is the one supplied inline to that
\* invocation (checkout) or the access token of its tenant (webhook), and
\* the shared Adapter keeps no credential.
C23_OwnCredentials ==
    /\ cc.adapter = <<>>
    /\ \A p \in Goroutines :
          LET g == cc.g[p]
          IN  /\ \A i \in 1..Len(g.verified) :
                    g.verified[i] = WebhookSecretOf(g.slug)
              /\ \A i \in 1..Len(g.configured) :
                    g.configured[i] = IF g.kind = "checkout" THEN g.inline
                                      ELSE AccessTokenOf(g.slug)

\* webhooks of two tenants are in flight together: one has verified and
\* asked the gateway, the other has verified in between
C23_Witness ==
    \E p, q \in Goroutines :
        /\ cc.g[p].kind = "webhook"
        /\ cc.g[p].pc = "NotifyPaymentConfirmed"
        /\ cc.g[p].verified # <<>>
        /\ cc.g[p].configured # <<>>
        /\ cc.g[q].kind = "webhook"
        /\ cc.g[q].pc = "GetAccessToken"
        /\ cc.g[q].verified # <<>>
        /\ cc.g[q].slug # cc.g[p].slug

---------------------------------------------------------------------------
(* Properties of the log (checked under SpecLog).                          *)

\* a part of a line of lines is the secret or the token
C24_Mentions(lines, sec, tok) ==
    \E i \in 1..Len(lines) : \E j \in 1..Len(lines[i]) :
        \/ (sec # EmptyStr /\ lines[i][j].b = sec)
        \/ (tok # "" /\ lines[i][j].s = tok)

\* C24 as stated: no line holds a token or a secret, and two executions
\* that differ in those values only write the same text.  An execution in
\* which the signature verifies under the stored secret and one in which
\* it does not write different lines.
C24_SameLogForAllSecrets ==
    fx.op = "Lines" =>
        /\ ~C24_Mentions(fx.linesA, fx.secretA, fx.tokenA)
        /\ ~C24_Mentions(fx.linesB, fx.secretB, fx.tokenB)
        /\ fx.linesA = fx.linesB

\* C24 as amended: no line holds a token or a secret, and two executions
\* that differ in those values only and end with the same result write
\* the same text.
C24_NoSecretInLog ==
    fx.op = "Lines" =>
        /\ ~C24_Mentions(fx.linesA, fx.secretA, fx.tokenA)
        /\ ~C24_Mentions(fx.linesB, fx.secretB, fx.tokenB)
        /\ ~C24_Mentions(fx.linesA, fx.secretB, fx.tokenB)
        /\ fx.resultA = fx.resultB => fx.linesA = fx.linesB

\* a failed checkout logged the error of the gateway for two tokens
C24_Witness ==
    /\ fx.op = "Lines"
    /\ fx.path = "checkout"
    /\ fx.tokenA # "" /\ fx.tokenB # "" /\ fx.tokenA # fx.tokenB
    /\ Len(fx.linesA) = 1
    /\ fx.linesA[1][1] = LogS("Failed to create preference for gym ")
    /\ fx.linesA = fx.linesB

---------------------------------------------------------------------------
(* Properties of the pure functions (checked under SpecFn).                *)

\* the table of the specification
C7_Table(status) ==
    CASE status = "approved" -> "payment.approved"
      [] status = "pending" -> "payment.pending"
      [] status = "in_process" -> "payment.pending"
      [] status = "rejected" -> "payment.rejected"
      [] status = "cancelled" -> "payment.cancelled"
      [] status = "refunded" -> "payment.refunded"
      [] OTHER -> "payment.updated"

\* C7: the status-to-event mapping equals the fixed table, every other
\* string (the empty one included) gives payment.updated, and no event
\* name is empty.
C7_StatusMapping ==
    fx.op = "mapStatusToEvent" =>
        /\ fx.out = C7_Table(fx.status)
        /\ fx.out # ""

\* in_process is mapped to payment.pending
C7_Witness ==
    /\ fx.op = "mapStatusToEvent"
    /\ fx.status = "in_process"
    /\ fx.out = "payment.pending"

\* the header holds  key  followed by a byte other than a comma
C8_HasValue(header, key) ==
    \E i \in 1..(Len(header) - Len(key)) :
        /\ SubSeq(header, i, i + Len(key) - 1) = key
        /\ header[i + Len(key)] # ","

\* C8: Verify is false whenever the header is empty, the secret is empty,
\* or the header holds no ts value or no v1 value.
C8_FailsClosed ==
    (/\ fx.op = "ValidateSignature"
     /\ \/ fx.xSignature = <<>>
        \/ fx.secret = <<>>
        \/ ~C8_HasValue(fx.xSignature, <<"t", "s", "=">>)
        \/ ~C8_HasValue(fx.xSignature, <<"v", "1", "=">>))
    => fx.out = FALSE

\* a header signed under the empty key is refused for the empty secret
C8_Witness ==
    /\ fx.op = "ValidateSignature"
    /\ fx.secret = <<>>
    /\ fx.xSignature = SignedHeader(<<"5">>, fx.xRequestID, fx.dataID, <<>>)
    /\ fx.out = FALSE

\* the header has a comma-separated entry that is  key  followed by a value:
\* key stands at the start of the header or right after a comma
C29_HasEntry(header, key) ==
    \E i \in 1..(Len(header) - Len(key)) :
        /\ i = 1 \/ header[i - 1] = ","
        /\ SubSeq(header, i, i + Len(key) - 1) = key
        /\ header[i + Len(key)] # ","

\* C29: Verify takes ts and v1 only from entries whose key is exactly ts and
\* exactly v1: a header without an entry ts=<value>, or without an entry
\* v1=<value>, is treated as lacking the field and refused, also when
\* another entry's key ends in ts or v1 (xts=5, av1=ab).
\* parseSignatureHeader searches the whole header for ts=([^,]+) and
\* v1=([^,]+) and so reads xts=5 as the timestamp 5.
C29_ExactKeys ==
    (/\ fx.op = "ValidateSignature"
     /\ \/ ~C29_HasEntry(fx.xSignature, <<"t", "s", "=">>)
        \/ ~C29_HasEntry(fx.xSignature, <<"v", "1", "=">>))
    => fx.out = FALSE

\* the segment of a field of the canonical message
C9_Segment(name, value) ==
    IF value = <<>> THEN <<>> ELSE name \o value \o <<";">>

C10_RoundTrip ==
    /\ fx.op = "VerifySigned" => (fx.out = (fx.secret = fx.signKey))
    /\ fx.op = "VerifyAltered" => fx.out = FALSE

\* a signed header verified under the key it was signed with
C10_Witness ==
    /\ fx.op = "VerifySigned"
    /\ fx.secret = fx.signKey
    /\ fx.dataID # <<>>
    /\ fx.out = TRUE

=============================================================================
